---- MODULE Spec2Model ----
(***************************************************************************)
(* A model of notion_cli's HTTP request pipeline: NotionClient.request     *)
(* (client/base.py) with the token-bucket RateLimiter                      *)
(* (client/rate_limiter.py), the TTL response Cache (client/cache.py) and  *)
(* the error classification of exceptions.py; and models of the            *)
(* RateLimiter used by several threads and of the Cache called directly.   *)
(*                                                                         *)
(* Time is counted in ticks of 1/requests_per_second seconds, the time the *)
(* bucket needs to accrue one token.  The monotonic clock is kept relative:*)
(* since_refill is now - last_refill and every cache entry carries the     *)
(* ticks it has left to live, so that a sleep of d ticks ages both by d.   *)
(***************************************************************************)
EXTENDS Integers, Sequences, FiniteSets, TLC

(* ------------------------------ bounds -------------------------------- *)

\* Settings.max_retries ranges over 1..MaxRetries.
MaxRetries == 3
\* Settings.cache_ttl, in seconds.
cache_ttl == 1
\* Settings.requests_per_second (whole tokens per second).
requests_per_second == 1

\* acquire(timeout) and wait_for_retry(retry_after) are called with 0 to
\* MaxSeconds seconds.
MaxSeconds == 1
\* The time since the bucket was last filled is counted up to MaxClock ticks.
MaxClock == 2
\* The text of a block searched by find_replace has up to MaxText
\* characters, find_text 1 to MaxFind and replace_text up to MaxReplace.
MaxText == 3
MaxFind == 2
MaxReplace == 2

(* --------------------------- program constants ------------------------ *)

\* RateLimiter.max_burst: NotionClient never overrides the default.
max_burst == 5
\* wait_exponential(multiplier=1, min=1, max=60)
backoff_multiplier == 1
backoff_min == 1
backoff_max == 60

(* ------------------------------ values -------------------------------- *)

\* Python's None (of a string-valued field), and a key a dict does not have.
None == "None"
Absent == "absent"
\* None and "no such key" for integer-valued fields.
NoneInt == 0 - 1
AbsentInt == 0 - 2

Min(a, b) == IF a <= b THEN a ELSE b
Max(a, b) == IF a >= b THEN a ELSE b

Methods == {"GET", "POST", "PATCH", "DELETE"}
\* A read and a mutation.
SomeMethods == {"GET", "POST"}
Endpoints == {"/users"}
\* params: None, or a dict of query parameters (the set of its key/value
\* pairs; the empty dict is the empty set).
NoParams == [is_none |-> TRUE, items |-> {}]
Dict(items) == [is_none |-> FALSE, items |-> items]
Params == {NoParams, Dict({}), Dict({<<"page_size", "10">>})}
\* The params the Cache is called with directly: two more dicts that
\* differ in one value only.
AllParams == Params \cup {Dict({<<"page_size", "100">>})}
\* use_cache of one call: None (not given), True or False.
NotGiven == [is_none |-> TRUE, value |-> FALSE]
Given(b) == [is_none |-> FALSE, value |-> b]
CacheOverrides == {NotGiven, Given(TRUE), Given(FALSE)}

\* HTTP bodies the server may send.  shape tells what response.json() makes
\* of the text: a JSON object, a JSON array, or text that is not JSON.
NoBody == [shape |-> "none", raw |-> "", message |-> Absent, code |-> Absent]
Page == [shape |-> "object", raw |-> "{\"id\": 1}", message |-> Absent, code |-> Absent]
ErrorBody ==
    [shape |-> "object", raw |-> "{\"message\": \"boom\", \"code\": \"c1\"}",
     message |-> "boom", code |-> "c1"]
Bodies ==
    { Page, ErrorBody,
      [shape |-> "array", raw |-> "[1]", message |-> Absent, code |-> Absent],
      [shape |-> "text", raw |-> "<html>oops</html>", message |-> Absent, code |-> Absent] }

Statuses == {200, 400, 401, 403, 404, 409, 418, 429, 500, 503}
\* Retry-After: not sent, delta-seconds, or an HTTP-date.
RetryAfterHeaders == {Absent, "2", "Wed, 21 Oct 2015 07:28:00 GMT"}
\* The strings int() accepts, among the ones used here.
DecimalStrings == ("1" :> 1) @@ ("2" :> 2)

\* What self._client.request does: raise one of httpx's transport errors, or
\* return a response.  Retry-After is only read on a 429.
TransportErrors == {"TimeoutException", "ConnectError", "HTTPError"}
NoResponse == [transport |-> None, status_code |-> NoneInt, body |-> NoBody, retry_after |-> Absent]
Response(status_code, body, header) ==
    [transport |-> None, status_code |-> status_code, body |-> body, retry_after |-> header]
Responses ==
    { [transport |-> t, status_code |-> NoneInt, body |-> NoBody, retry_after |-> Absent] :
        t \in TransportErrors }
    \cup { Response(s, b, Absent) : s \in Statuses \ {429}, b \in Bodies }
    \cup { Response(429, ErrorBody, h) : h \in RetryAfterHeaders }
\* A server that answers a read with one of two pages, or fails.
SomeResponses == { Response(200, Page, Absent), Response(200, ErrorBody, Absent),
                   Response(500, ErrorBody, Absent) }

(* ------------------------------ errors -------------------------------- *)

\* The NotionCLIError classes of exceptions.py and the exceptions of the
\* Python runtime that are none of them.
TypedKinds ==
    { "NotionCLIError", "AuthenticationError", "NotFoundError", "ValidationError",
      "RateLimitError", "PermissionError", "ServerError", "NetworkError", "ConflictError" }
UntypedKinds == {"ValueError", "JSONDecodeError", "AttributeError", "RetryError"}

NoExc == [kind |-> None, message |-> Absent, notion_code |-> Absent,
          status_code |-> AbsentInt, retry_after |-> AbsentInt, attempts |-> AbsentInt]

\* NotionCLIError.__init__: message and details (a dict; its keys are the
\* last four fields, AbsentInt / Absent for a key the dict does not have).
Exc(kind, message, notion_code, status_code) ==
    [kind |-> kind, message |-> message, notion_code |-> notion_code,
     status_code |-> status_code, retry_after |-> AbsentInt, attempts |-> AbsentInt]

\* RateLimitError.__init__(message, retry_after=None, attempts=0)
RateLimitError(message, retry_after, attempts) ==
    [kind |-> "RateLimitError", message |-> message, notion_code |-> Absent,
     status_code |-> AbsentInt, retry_after |-> retry_after, attempts |-> attempts]

\* An exception that is no NotionCLIError.
PyExc(kind) == Exc(kind, Absent, Absent, AbsentInt)

error_map ==
    (400 :> "ValidationError") @@ (401 :> "AuthenticationError")
    @@ (403 :> "PermissionError") @@ (404 :> "NotFoundError")
    @@ (409 :> "ConflictError") @@ (429 :> "RateLimitError")

\* exception_from_response with the server errors taken to start above 500.
exception_from_response_above_500(status_code, body) ==
    IF body.shape # "object"
    THEN PyExc("AttributeError")
    ELSE LET message == IF body.message = Absent THEN "Unknown error" ELSE body.message
             code == IF body.code = Absent THEN "unknown" ELSE body.code
         IN  IF status_code \in DOMAIN error_map
             THEN IF error_map[status_code] = "RateLimitError"
                  THEN RateLimitError(message, NoneInt, 0)
                  ELSE Exc(error_map[status_code], message, code, AbsentInt)
             ELSE IF status_code > 500
                  THEN Exc("ServerError", message, code, status_code)
                  ELSE Exc("NotionCLIError", message, code, status_code)

\* exception_from_response(status_code, body): body is what response.json()
\* returned or the dict {"message": response.text}.  body.get on a value
\* that is no dict raises AttributeError.
exception_from_response(status_code, body) ==
    IF body.shape # "object"
    THEN PyExc("AttributeError")
    ELSE LET message == IF body.message = Absent THEN "Unknown error" ELSE body.message
             code == IF body.code = Absent THEN "unknown" ELSE body.code
         IN  IF status_code \in DOMAIN error_map
             THEN IF error_map[status_code] = "RateLimitError"
                  THEN RateLimitError(message, NoneInt, 0)
                  ELSE Exc(error_map[status_code], message, code, AbsentInt)
             ELSE IF status_code >= 500
                  THEN Exc("ServerError", message, code, status_code)
                  ELSE Exc("NotionCLIError", message, code, status_code)

VARIABLES
    settings,        \* Settings: use_cache, max_retries
    tokens,          \* RateLimiter.tokens
    since_refill,    \* time.monotonic() - RateLimiter.last_refill, in ticks
    cache_opened,    \* Cache._cache is not None: the directory and store exist
    store,           \* the disk cache: key -> entry
    pc,              \* where the caller of request is
    call,            \* the arguments of the request under way (or last made)
    attempt_number,  \* tenacity's retry_state.attempt_number
    retry_after,     \* retry_after of the 429 being handled
    attempt_exc,     \* the exception the last attempt raised
    response,        \* the last HTTP response received
    http_calls,      \* HTTP calls dispatched by this request
    history,         \* how each attempt of this request ended
    outcome,         \* how the last request ended
    waited,          \* seconds this attempt has slept in wait_for_retry
    lock,            \* RateLimiter._lock: the thread that holds it
    threads,         \* the threads that call the RateLimiter
    epoch,           \* the bucket since it was last filled
    cache_call,      \* the last direct call of the Cache and its result
    set_log,         \* what was last set under each key, and the time it has left
    acquired,        \* tokens this request has taken from the limiter
    numbered_list_counters,  \* MarkdownRenderer._numbered_list_counters
    last_block_type,         \* MarkdownRenderer._last_block_type
    depth,           \* the depth the siblings given to this renderer are at
    rendered,        \* the last call of render_block and what it returned
    siblings,        \* what this renderer made of each sibling so far
    rich_text_call,  \* the last call of _render_text_segment and its result
    blocks_call,     \* the last call of render_blocks on this renderer
    replace_call     \* the last call of PagesAPI.find_replace and what it did

vars == << settings, tokens, since_refill, cache_opened, store, pc, call,
           attempt_number, retry_after, attempt_exc, response, http_calls,
           history, outcome, waited, lock, threads, epoch, cache_call, set_log,
           acquired, numbered_list_counters, last_block_type, depth, rendered,
           siblings, rich_text_call, blocks_call, replace_call >>

\* The state of the MarkdownRenderer and of its callers, and of the
\* caller of PagesAPI.
render_vars == << numbered_list_counters, last_block_type, depth, rendered,
                 siblings, rich_text_call, blocks_call, replace_call >>

\* The state of the client: its settings, limiter, cache and requests.
service_vars == << settings, tokens, since_refill, cache_opened, store, pc, call,
                  attempt_number, retry_after, attempt_exc, response, http_calls,
                  history, outcome, waited, lock, threads, epoch, cache_call,
                  set_log, acquired >>

(* ------------------------------- time --------------------------------- *)

SecondsToTicks(seconds) == seconds * requests_per_second

\* since_refill after d more ticks.  One tick accrues one token, so once
\* max_burst - tokens ticks have passed the bucket is full whatever the
\* exact time: the clock is not read past that point.
Elapsed(d) == Min(since_refill + d, max_burst - tokens)

\* wait_exponential(multiplier=1, min=1, max=60), in seconds, before the
\* retry that follows attempt n (n is at most MaxRetries + 1 here).
Pow2(n) == IF n <= 0 THEN 1 ELSE IF n >= 7 THEN 64 ELSE 2 ^ n
wait_exponential(n) ==
    Max(backoff_min, Min(backoff_multiplier * Pow2(n - 1), backoff_max))

(* ---------------------------- RateLimiter ----------------------------- *)

\* _refill without the cap of max_burst.
RefilledUncapped == tokens + since_refill

\* RateLimiter._refill: tokens after the refill (last_refill becomes now).
Refilled == Min(max_burst, tokens + since_refill)

(* ------------------------------- Cache -------------------------------- *)

\* _make_key with the params left out of the key.
make_key_of_endpoint(endpoint, params) == [endpoint |-> endpoint, params |-> {}]

\* Cache._make_key: the sha256 of json.dumps({"endpoint": endpoint,
\* "params": params or {}}, sort_keys=True).  None and the empty dict give
\* the same text; the hash is taken to be free of collisions.
make_key(endpoint, params) ==
    [endpoint |-> endpoint, params |-> IF params.is_none THEN {} ELSE params.items]
Keys == { [endpoint |-> e, params |-> IF p.is_none THEN {} ELSE p.items] :
            e \in Endpoints, p \in AllParams }

\* json.dumps / json.loads of a response.
Dumps(value) == [json |-> value.raw, shape |-> value.shape]
Loads(text) ==
    CHOOSE b \in Bodies \cup {NoBody} : b.raw = text.json /\ b.shape = text.shape

NoEntry == [present |-> FALSE, text |-> Dumps(NoBody), ttl |-> 0]

\* Cache.enabled is settings.use_cache (NotionClient.__init__).
CacheEnabled == settings.use_cache

\* Cache.get with its test of the stored value inverted.
CacheGetInverted(endpoint, params) ==
    IF ~CacheEnabled
    THEN NoBody
    ELSE LET e == store[make_key(endpoint, params)]
         IN  IF ~(e.present /\ e.ttl > 0) THEN Loads(e.text) ELSE NoBody

\* Cache.get: None (NoBody) when disabled, missing or expired.
CacheGet(endpoint, params) ==
    IF ~CacheEnabled
    THEN NoBody
    ELSE LET e == store[make_key(endpoint, params)]
         IN  IF e.present /\ e.ttl > 0 THEN Loads(e.text) ELSE NoBody

\* Cache.set writing whether the cache is enabled or not.
CacheSetAlways(st, endpoint, params, value, ttl) ==
    [st EXCEPT ![make_key(endpoint, params)] =
        [present |-> TRUE, text |-> Dumps(value),
         ttl |-> SecondsToTicks(IF ttl # NoneInt THEN ttl ELSE cache_ttl)]]

\* Cache.set: the store after it.  ttl is in seconds, NoneInt for None
\* (default_ttl, which is settings.cache_ttl, is used then).  The disk
\* cache drops the entries that have expired whenever one is set.
CacheSet(st, endpoint, params, value, ttl) ==
    IF ~CacheEnabled
    THEN st
    ELSE LET key == make_key(endpoint, params)
             expire == IF ttl # NoneInt THEN ttl ELSE cache_ttl
         IN  [k \in Keys |->
                IF k = key
                THEN [present |-> TRUE, text |-> Dumps(value),
                      ttl |-> SecondsToTicks(expire)]
                ELSE IF st[k].present /\ st[k].ttl = 0 THEN NoEntry
                ELSE st[k]]

\* len(self.cache): the entries in the store, expired ones included.
CacheLen == Cardinality({ k \in Keys : store[k].present })

\* self.cache.clear() removing the expired entries only.
ClearedOfExpired ==
    [k \in Keys |-> IF store[k].present /\ store[k].ttl = 0 THEN NoEntry ELSE store[k]]

\* self.cache.clear(): the store after it.
Cleared == [k \in Keys |-> NoEntry]

\* The store with no entry ever expiring.
AgedNever(d) == store

\* The store with every entry expired at once.
AgedAtOnce(d) ==
    [k \in Keys |-> IF store[k].present THEN [store[k] EXCEPT !.ttl = 0] ELSE store[k]]

\* The store d ticks later.
Aged(d) ==
    [k \in Keys |-> IF store[k].present
                    THEN [store[k] EXCEPT !.ttl = Max(0, @ - d)]
                    ELSE store[k]]

\* A direct call of the Cache and what it returned: op is "get", "set" or
\* "invalidate"; result is what get returned, count what invalidate did.
NoCacheCall ==
    [op |-> None, endpoint |-> None, params |-> NoParams, value |-> NoBody,
     ttl |-> NoneInt, pattern |-> None, result |-> NoBody, count |-> NoneInt]

\* The record of the set calls: under each key the value last set and the
\* ticks left until its ttl has elapsed; an invalidate forgets them all.
NeverSet == [set |-> FALSE, value |-> NoBody, left |-> 0]

\* The (endpoint, params) a call is about, None standing for the empty
\* dict: what the record of the set calls is kept under.
LogKey(endpoint, params) ==
    [endpoint |-> endpoint, params |-> IF params.is_none THEN {} ELSE params.items]

\* The record of the set calls after set(endpoint, params, value, ttl).
Logged(endpoint, params, value, ttl) ==
    [set_log EXCEPT ![LogKey(endpoint, params)] =
        [set |-> TRUE, value |-> value,
         left |-> SecondsToTicks(IF ttl # NoneInt THEN ttl ELSE cache_ttl)]]

\* The record of the set calls d ticks later.
LogAged(d) == [k \in Keys |-> [set_log[k] EXCEPT !.left = Max(0, @ - d)]]

(* ---------------------------- NotionClient ---------------------------- *)

NoCall == [method |-> None, endpoint |-> None, params |-> NoParams, use_cache |-> NotGiven]
NoOutcome == [kind |-> "none", value |-> NoBody, exc |-> NoExc, from_cache |-> FALSE]
Returned(value, from_cache) ==
    [kind |-> "return", value |-> value, exc |-> NoExc, from_cache |-> from_cache]
Raised(exc) == [kind |-> "raise", value |-> NoBody, exc |-> exc, from_cache |-> FALSE]

\* response.headers.get("Retry-After", "1") with the header not looked at.
retry_after_ignored(resp) == "1"

\* response.headers.get("Retry-After", "1")
retry_after_of(resp) ==
    IF resp.retry_after = Absent THEN "1" ELSE resp.retry_after

\* should_cache of request.
ShouldCache(c) ==
    IF ~c.use_cache.is_none THEN c.use_cache.value ELSE settings.use_cache

\* An attempt that goes to the HTTP call without the acquire.
AttemptStartsAtHttp == "http"

\* Where _make_request starts: at self.rate_limiter.acquire().
AttemptStart == "acquire"

\* retry=retry_if_exception_type(NotionCLIError)
retry_if_any_cli_error(exc) == exc.kind \in TypedKinds

\* retry=retry_if_exception_type((RateLimitError, ServerError, NetworkError))
retry_if_exception_type(exc) ==
    exc.kind \in {"RateLimitError", "ServerError", "NetworkError"}

\* stop_after_attempt counting the retries, not the attempts.
stop_one_early(n) == n + 1 >= settings.max_retries

\* stop_after_attempt stopping one attempt late.
stop_one_late(n) == n >= settings.max_retries + 1

\* stop=stop_after_attempt(self.settings.max_retries)
stop_after_attempt(n) == n >= settings.max_retries

\* The write of request without its test of the method.
MayStoreAnyMethod(c) == ShouldCache(c)

\* The condition of the write of request: a GET that may use the cache.
MayStore(c) == c.method = "GET" /\ ShouldCache(c)

\* How an attempt that raised exc ended, for the record kept in history:
\* with an error of a kind that is retried, or with another one.
AttemptClass(exc) ==
    IF exc.kind \in {"RateLimitError", "ServerError", "NetworkError"}
    THEN "retryable"
    ELSE "fatal"

\* reraise=False: tenacity raises its RetryError around the last attempt.
RaiseRetryError(exc) ==
    IF retry_if_exception_type(exc) THEN PyExc("RetryError") ELSE exc

\* reraise=True: when the policy stops, the last attempt's exception is
\* raised as it is.
Reraise(exc) == exc

(* ------------------- RateLimiter and its callers --------------------- *)

\* The threads that share the RateLimiter of one client.
Threads == {"t1", "t2"}
\* timeout of acquire, in seconds: None, or a number.
Timeouts == {NoneInt} \cup (0..MaxSeconds)
\* retry_after of wait_for_retry, in seconds.
RetryAfters == 0..MaxSeconds

\* A thread and its call of the RateLimiter: where it is (pc), the method
\* (op), acquire's timeout in ticks (NoneInt for None), the ticks since
\* acquire's start_time, the ticks its time.sleep has left, what acquire
\* returned (ok) and whether the call has slept.  The locals of a call are
\* gone when it returns.
IdleThread ==
    [pc |-> "idle", op |-> None, timeout |-> NoneInt, elapsed |-> 0, sleep |-> 0,
     ok |-> FALSE, slept |-> FALSE]

\* The bucket since it was last filled (made, reset, or reset by
\* wait_for_retry): who filled it, the tokens granted and the ticks passed
\* since, whether an acquire has found it empty since, and whether it
\* was empty just before it was filled.
Fresh == [by |-> "init", granted |-> 0, clock |-> 0, starved |-> FALSE, drained |-> FALSE]
Filled(op) ==
    [by |-> op, granted |-> 0, clock |-> 0, starved |-> FALSE, drained |-> (tokens = 0)]

\* now - last_refill after one more tick, for callers of any number: once
\* max_burst ticks have passed the bucket is full from any level.
ClockAfterTick == Min(since_refill + 1, max_burst)

\* acquire taking a token that is not there.
HasTokenOrNone == Refilled >= 0

\* acquire: if self.tokens >= 1, after the refill.
HasToken == Refilled >= 1

\* acquire keeping the lock while it sleeps.
LockKeptWhileSleeping(t) == t

\* acquire: self._lock.release() before time.sleep: nobody holds the lock.
LockWhileSleeping(t) == None

\* The timeout budget of acquire taken from the timeout alone.
RemainingIgnoringElapsed(t) == threads[t].timeout

\* acquire: remaining = timeout - (time.monotonic() - start_time), in ticks.
Remaining(t) == threads[t].timeout - threads[t].elapsed

\* acquire returning True without taking the token.
AfterTakingNothing(level) == level

\* acquire: self.tokens -= 1
AfterTaking(level) == level - 1

\* reset leaving the bucket as it is.
ResetTokensKept == tokens

\* reset / wait_for_retry: self.tokens = float(self.max_burst)
ResetTokens == max_burst

(* -------------------------- MarkdownRenderer -------------------------- *)

\* A str is the sequence of its characters.
Concat(a, b, c) == a \o b \o c

RECURSIVE Flat(_)
\* "".join(parts)
Flat(parts) == IF parts = << >> THEN << >> ELSE Head(parts) \o Flat(Tail(parts))

RECURSIVE Join(_, _)
\* sep.join(parts)
Join(sep, parts) ==
    IF parts = << >> THEN << >>
    ELSE IF Len(parts) = 1 THEN parts[1]
    ELSE parts[1] \o sep \o Join(sep, Tail(parts))

\* text.startswith(prefix) and text.endswith(suffix)
StartsWith(text, prefix) ==
    Len(text) >= Len(prefix) /\ SubSeq(text, 1, Len(prefix)) = prefix
EndsWith(text, suffix) ==
    /\ Len(text) >= Len(suffix)
    /\ SubSeq(text, Len(text) - Len(suffix) + 1, Len(text)) = suffix

\* text.split("\n"): the parts of text between its line ends.
LineEnds(text) ==
    {0} \cup { i \in 1..Len(text) : text[i] = "\n" } \cup { Len(text) + 1 }
Lines(text) ==
    LET ends == LineEnds(text)
        nth(k) == CHOOSE e \in ends : Cardinality({ f \in ends : f < e }) = k - 1
    IN  [k \in 1..(Cardinality(ends) - 1) |-> SubSeq(text, nth(k) + 1, nth(k + 1) - 1)]

\* The grave accent, which a string of this language cannot hold.
Backtick == "grave accent"

\* str(number) of a number that is not negative
Digits == << "0", "1", "2", "3", "4", "5", "6", "7", "8", "9" >>
RECURSIVE Str(_)
Str(n) == IF n < 10 THEN << Digits[n + 1] >> ELSE Str(n \div 10) \o << Digits[(n % 10) + 1] >>

(* rich text *)

\* The annotations of a run, in the order _apply_annotations looks at them.
Annotations == << "code", "bold", "italic", "strikethrough", "underline" >>

\* What each annotation puts before and after the text.
Opening ==
    [code |-> << Backtick >>, bold |-> << "*", "*" >>, italic |-> << "*" >>,
     strikethrough |-> << "~", "~" >>, underline |-> << "<", "u", ">" >>]
Closing ==
    [code |-> << Backtick >>, bold |-> << "*", "*" >>, italic |-> << "*" >>,
     strikethrough |-> << "~", "~" >>, underline |-> << "<", "/", "u", ">" >>]

\* segment["text"]["link"] and segment["href"]: None, or a url
NoUrl == [is_none |-> TRUE, url |-> << >>]
Url(u) == [is_none |-> FALSE, url |-> u]

\* A rich text run: type is "text", "mention" or "equation" (or another,
\* which is rendered from plain_text); content is text.content, the
\* equation's expression, plain_text, or what the mention names (the
\* user's name, the page's id, the date's start); annotations is the set
\* of the annotations that are true.
Segment(type, mention, content, link, annotations, href) ==
    [type |-> type, mention |-> mention, content |-> content, link |-> link,
     annotations |-> annotations, href |-> href]

\* A text run without link, annotation or href.
Plain(content) == Segment("text", None, content, NoUrl, {}, NoUrl)

\* _apply_annotations looking at code last, so that it ends up outermost.
RECURSIVE apply_annotations_from(_, _, _)
apply_annotations_from(text, annotations, i) ==
    IF i > Len(Annotations) THEN text
    ELSE apply_annotations_from(
            IF Annotations[i] \in annotations
            THEN Concat(Opening[Annotations[i]], text, Closing[Annotations[i]])
            ELSE text,
            annotations, i + 1)
apply_annotations_code_last(text, annotations) ==
    IF text = << >> THEN text
    ELSE LET rest == apply_annotations_from(text, annotations \ {"code"}, 1)
         IN  IF "code" \in annotations
             THEN Concat(Opening.code, rest, Closing.code)
             ELSE rest

\* MarkdownRenderer._apply_annotations
apply_annotations(text, annotations) ==
    IF text = << >> THEN text ELSE apply_annotations_from(text, annotations, 1)

\* MarkdownRenderer._render_mention
render_mention(segment) ==
    CASE segment.mention = "user" -> << "@" >> \o segment.content
      [] segment.mention = "page" -> Concat(<< "[", "P", "a", "g", "e", "]", "(" >>, segment.content, << ")" >>)
      [] segment.mention = "database" -> Concat(<< "[", "D", "a", "t", "a", "b", "a", "s", "e", "]", "(" >>, segment.content, << ")" >>)
      [] segment.mention = "date" -> segment.content
      [] segment.mention = "link_preview" -> Concat(<< "[", "L", "i", "n", "k", "]", "(" >>, segment.content, << ")" >>)
      [] OTHER -> << "[", "m", "e", "n", "t", "i", "o", "n", "]" >>

\* if href and not content.startswith("["): whether href wraps the content
HrefWraps(href, content) ==
    /\ ~href.is_none
    /\ href.url # << >>
    /\ ~StartsWith(content, << "[" >>)

\* MarkdownRenderer._render_text_segment
render_text_segment(segment) ==
    IF segment.type = "equation"
    THEN Concat(<< "$" >>, segment.content, << "$" >>)
    ELSE LET content ==
                 IF segment.type = "text"
                 THEN IF ~segment.link.is_none
                      THEN << "[" >> \o segment.content \o << "]", "(" >> \o segment.link.url \o << ")" >>
                      ELSE segment.content
                 ELSE IF segment.type = "mention"
                 THEN render_mention(segment)
                 ELSE segment.content
             annotated == apply_annotations(content, segment.annotations)
         IN  IF HrefWraps(segment.href, annotated)
             THEN << "[" >> \o annotated \o << "]", "(" >> \o segment.href.url \o << ")" >>
             ELSE annotated

\* MarkdownRenderer.render_rich_text
render_rich_text(rich_text) ==
    Flat([i \in 1..Len(rich_text) |-> render_text_segment(rich_text[i])])

\* No call of _render_text_segment yet.
NoRichTextCall == [called |-> FALSE, segment |-> Plain(<< >>), out |-> << >>]

(* blocks *)

\* A block: its type, the rich_text of its payload, its children and, for
\* a table_row, its cells (each a rich text).
Block(type, rich_text, children, cells) ==
    [type |-> type, rich_text |-> rich_text, children |-> children, cells |-> cells]

\* "  " * depth
Indent(d) == [i \in 1..(2 * d) |-> " "]

\* _numbered_list_counters is the set of its (depth, count) items.
Counter(counters, d) == (CHOOSE item \in counters : item[1] = d)[2]
HasCounter(counters, d) == \E item \in counters : item[1] = d

\* The names n for which the renderer has an attribute _render_<n>: the
\* handlers of the block types, and _render_text_segment, _render_mention
\* and _render_unsupported.
BlockHandlers ==
    { "paragraph", "heading_1", "heading_2", "heading_3", "bulleted_list_item",
      "numbered_list_item", "to_do", "code", "quote", "callout", "divider",
      "toggle", "table", "table_row", "column_list", "column", "image", "video",
      "file", "pdf", "bookmark", "link_preview", "embed", "child_page",
      "child_database", "synced_block", "template", "link_to_page", "equation",
      "breadcrumb", "table_of_contents" }
OtherMethods == { "text_segment", "mention", "unsupported" }

\* getattr(self, f"_render_{block_type}", None) is not None
HasAttribute(type) == type \in BlockHandlers \cup OtherMethods

\* The characters of the type names that are written out.
TypeName(type) ==
    CASE type = "foo" -> << "f", "o", "o" >>
      [] type = "unsupported" -> << "u", "n", "s", "u", "p", "p", "o", "r", "t", "e", "d" >>
      [] type = "text_segment" -> << "t", "e", "x", "t", "_", "s", "e", "g", "m", "e", "n", "t" >>
      [] type = "mention" -> << "m", "e", "n", "t", "i", "o", "n" >>

\* What a call made of the renderer: the text it returned, or the
\* exception it raised, and the renderer's fields after it.
Result(out, raised, counters, last) ==
    [out |-> out, raised |-> raised, counters |-> counters, last |-> last]

\* The fields of the renderer after a call, to go on from.
After(r) == [counters |-> r.counters, last |-> r.last]

\* block["children"] = [] left out of _render_toggle.
ToggleKeepsChildren(block) == block.children

\* block["children"] after _render_toggle: it has set it to [].
ToggleLeavesChildren(block) == << >>

\* while len(cell_texts) < col_count: cell_texts.append("")
Padded(cell_texts, col_count) ==
    [i \in 1..Max(Len(cell_texts), col_count) |->
        IF i <= Len(cell_texts) THEN cell_texts[i] ELSE << >>]

\* MarkdownRenderer._render_table
render_table(block, d) ==
    IF block.children = << >>
    THEN << >>
    ELSE LET col_count == Len(block.children[1].cells)
             row(i) ==
                 LET cells == block.children[i].cells
                     cell_texts == [j \in 1..Len(cells) |-> render_rich_text(cells[j])]
                 IN  Indent(d) \o << "|", " " >>
                       \o Join(<< " ", "|", " " >>, Padded(cell_texts, col_count)) \o << " ", "|" >>
             separator ==
                 Indent(d) \o << "|" >>
                   \o Join(<< "|" >>, [j \in 1..col_count |-> << "-", "-", "-" >>]) \o << "|" >>
             lines == [i \in 1..(Len(block.children) + 1) |->
                          IF i = 1 THEN row(1)
                          ELSE IF i = 2 THEN separator
                          ELSE row(i - 1)]
         IN  Join(<< "\n" >>, lines) \o << "\n" >>

RECURSIVE render_block(_, _, _)
RECURSIVE render_each(_, _, _)
RECURSIVE render_rest(_, _, _)
RECURSIVE render_columns(_, _, _, _)

\* for child in children: child_rendered = self.render_block(child, d),
\* keeping the renderings that are not empty; it ends where a call raises.
render_each(st, blocks, d) ==
    IF blocks = << >>
    THEN [outs |-> << >>, raised |-> None, counters |-> st.counters, last |-> st.last]
    ELSE render_rest(render_block(st, Head(blocks), d), blocks, d)

\* The loop after the call for its first block returned or raised r.
render_rest(r, blocks, d) ==
    IF r.raised # None
    THEN [outs |-> << >>, raised |-> r.raised,
          counters |-> r.counters, last |-> r.last]
    ELSE LET rest == render_each(After(r), Tail(blocks), d)
         IN  [rest EXCEPT !.outs = IF r.out # << >> THEN << r.out >> \o @
                                                     ELSE @]

\* The loop of _render_column_list from column i on.
render_columns(st, columns, i, d) ==
    IF i > Len(columns)
    THEN Result(<< >>, None, st.counters, st.last)
    ELSE IF columns[i].children = << >>
    THEN render_columns(st, columns, i + 1, d)
    ELSE LET kids == render_each(st, columns[i].children, d)
         IN  IF kids.raised # None
             THEN Result(<< >>, kids.raised, kids.counters, kids.last)
             ELSE LET rest == render_columns(After(kids), columns, i + 1, d)
                  IN  [rest EXCEPT !.out =
                          << "<", "!", "-", "-", " ", "C", "o", "l", "u", "m", "n", " " >> \o Str(i) \o << " ", "-", "-", ">", "\n" >>
                            \o Flat(kids.outs) \o << "\n" >> \o @]

\* MarkdownRenderer._render_numbered_list_item
render_numbered_list_item(st, block, d) ==
    LET number == (IF HasCounter(st.counters, d) THEN Counter(st.counters, d) ELSE 0) + 1
    IN  Result(Indent(d) \o Str(number) \o << ".", " " >>
                 \o render_rich_text(block.rich_text) \o << "\n" >>,
               None,
               { item \in st.counters : item[1] < d } \cup { << d, number >> },
               st.last)

\* MarkdownRenderer._render_toggle
render_toggle(st, block, d) ==
    LET head == Indent(d) \o << "<", "d", "e", "t", "a", "i", "l", "s", ">", "\n" >> \o Indent(d) \o << "<", "s", "u", "m", "m", "a", "r", "y", ">" >>
                  \o render_rich_text(block.rich_text) \o << "<", "/", "s", "u", "m", "m", "a", "r", "y", ">", "\n", "\n" >>
        foot == << "\n" >> \o Indent(d) \o << "<", "/", "d", "e", "t", "a", "i", "l", "s", ">", "\n" >>
        kids == render_each(st, block.children, d + 1)
    IN  IF kids.raised # None
        THEN Result(<< >>, kids.raised, kids.counters, kids.last)
        ELSE Result(head \o Flat(kids.outs) \o foot, None, kids.counters, kids.last)

\* content.get("icon", {}) of a callout: the key is absent, or its value
\* is None, or it is a dict with a type and, by the type, an emoji or the
\* url of an external file ("" where the icon has none).
Icon(given, type, emoji, url) ==
    [given |-> given, type |-> type, emoji |-> emoji, url |-> url]
AbsentIcon == Icon("absent", None, << >>, << >>)
IconOf(block) == IF "icon" \in DOMAIN block THEN block.icon ELSE AbsentIcon

\* The lines of a text, each after the indentation and "> ".
Quoted(text, d) ==
    LET lines == Lines(text)
    IN  Join(<< "\n" >>, [k \in 1..Len(lines) |-> Indent(d) \o << ">", " " >> \o lines[k]])

\* MarkdownRenderer._render_quote
render_quote(st, block, d) ==
    Result(Quoted(render_rich_text(block.rich_text), d) \o << "\n" >>,
           None, st.counters, st.last)

\* MarkdownRenderer._render_callout
render_callout(st, block, d) ==
    LET text == render_rich_text(block.rich_text)
        icon == IconOf(block)
        emoji == IF icon.type = "emoji" THEN icon.emoji
                 ELSE IF icon.type = "external" THEN icon.url
                 ELSE << >>
    IN  IF icon.given = "None"
        THEN \* icon.get of None
             Result(<< >>, "AttributeError", st.counters, st.last)
        ELSE IF emoji # << >>
        THEN Result(Indent(d) \o << ">", " " >> \o emoji \o << " " >> \o text \o << "\n" >>,
                    None, st.counters, st.last)
        ELSE Result(Indent(d) \o << ">", " " >> \o text \o << "\n" >>,
                    None, st.counters, st.last)

\* MarkdownRenderer._render_unsupported
render_unsupported(st, block, d) ==
    Result(Indent(d) \o << "[", "u", "n", "s", "u", "p", "p", "o", "r", "t", "e", "d", ":", " " >> \o TypeName(block.type) \o << "]", "\n" >>,
           None, st.counters, st.last)

\* handler(block, depth), for the attribute that getattr found.  The
\* blocks given to the renderer are of the types listed here; the
\* handlers of the other types are not modelled.
handler(st, block, d) ==
    LET text == render_rich_text(block.rich_text)
        same(out) == Result(out, None, st.counters, st.last)
    IN  CASE block.type = "paragraph" -> same(Indent(d) \o text \o << "\n" >>)
          [] block.type = "heading_1" -> same(<< "#", " " >> \o text \o << "\n" >>)
          [] block.type = "bulleted_list_item" ->
                same(Indent(d) \o << "-", " " >> \o text \o << "\n" >>)
          [] block.type = "numbered_list_item" -> render_numbered_list_item(st, block, d)
          [] block.type = "quote" -> render_quote(st, block, d)
          [] block.type = "callout" -> render_callout(st, block, d)
          [] block.type = "divider" -> same(Indent(d) \o << "-", "-", "-" >> \o << "\n" >>)
          [] block.type = "toggle" -> render_toggle(st, block, d)
          [] block.type = "table" -> same(render_table(block, d))
          [] block.type \in {"table_row", "column", "synced_block", "breadcrumb"} ->
                same(<< >>)
          [] block.type = "column_list" -> render_columns(st, block.children, 1, d)
          [] block.type = "unsupported" -> render_unsupported(st, block, d)
          [] block.type \in {"text_segment", "mention"} ->
                \* _render_text_segment(segment) and _render_mention(mention)
                \* take one argument and are given two
                Result(<< >>, "TypeError", st.counters, st.last)

\* MarkdownRenderer.render_block(block, depth), the renderer's fields
\* being st before the call.
\* result += "\n".join(child_lines), and "\n" unless the result ends with
\* one: h is what the handler returned, kids what the loop over the
\* children made.
with_children(h, kids) ==
    LET joined == h.out \o Join(<< "\n" >>, kids.outs)
    IN  IF kids.raised # None
        THEN Result(<< >>, kids.raised, kids.counters, kids.last)
        ELSE Result(IF kids.outs = << >> THEN h.out
                    ELSE IF EndsWith(joined, << "\n" >>) THEN joined
                    ELSE joined \o << "\n" >>,
                    None, kids.counters, kids.last)

\* render_block from "# Handle nested children" on, h being what the
\* handler returned.
after_handler(h, block, d) ==
    LET children == IF block.type = "toggle" THEN ToggleLeavesChildren(block)
                                             ELSE block.children
    IN  IF h.raised # None \/ children = << >> \/ block.type \in {"table", "column_list"}
        THEN h
        ELSE with_children(h, render_each(After(h), children, d + 1))

render_block(st, block, d) ==
    LET st1 == [counters |-> IF /\ block.type # "numbered_list_item"
                                /\ st.last = "numbered_list_item"
                             THEN {} ELSE st.counters,
                last |-> block.type]
    IN  after_handler(IF HasAttribute(block.type)
                      THEN handler(st1, block, d)
                      ELSE render_unsupported(st1, block, d), block, d)

\* Whether render_block of the block raises: that depends on the types of
\* the blocks that are rendered under it, not on the renderer's fields.
Raising(block) == render_block([counters |-> {}, last |-> None], block, 0).raised # None

RECURSIVE block_after(_)
RECURSIVE each_after(_)
RECURSIVE columns_after(_)

\* The blocks of a list after the loop that renders them one by one: each
\* as render_block leaves it, up to the one whose rendering raises.
each_after(blocks) ==
    IF blocks = << >> THEN << >>
    ELSE IF Raising(Head(blocks))
    THEN << block_after(Head(blocks)) >> \o Tail(blocks)
    ELSE << block_after(Head(blocks)) >> \o each_after(Tail(blocks))

\* The columns of a column_list after _render_column_list: the children of
\* each column are rendered, the column itself is only read.
columns_after(columns) ==
    IF columns = << >> THEN << >>
    ELSE LET column == Head(columns)
             left == [column EXCEPT !.children = each_after(column.children)]
         IN  IF \E i \in 1..Len(column.children) : Raising(column.children[i])
             THEN << left >> \o Tail(columns)
             ELSE << left >> \o columns_after(Tail(columns))

\* The block, a dict that the caller still holds, after
\* render_block(block, depth): the renderer writes to it in one place,
\* block["children"] = [] of _render_toggle, which is reached when the
\* toggle had children and none of them raised.
block_after(block) ==
    CASE block.type \in {"text_segment", "mention", "table"} -> block
      [] block.type = "column_list" ->
            [block EXCEPT !.children = columns_after(block.children)]
      [] block.type = "toggle" ->
            IF block.children = << >> THEN block
            ELSE IF \E i \in 1..Len(block.children) : Raising(block.children[i])
            THEN [block EXCEPT !.children = each_after(block.children)]
            ELSE [block EXCEPT !.children = ToggleLeavesChildren(block)]
      [] OTHER -> [block EXCEPT !.children = each_after(block.children)]

\* The ordinal that a rendering starts with after its indentation (0 when
\* there is none).
RECURSIVE ParseNat(_, _)
ParseNat(text, n) ==
    IF text = << >> \/ ~(\E i \in 1..10 : Digits[i] = Head(text))
    THEN n
    ELSE ParseNat(Tail(text),
                  10 * n + (CHOOSE v \in 0..9 : Digits[v + 1] = Head(text)))
OrdinalOf(out, d) == ParseNat(SubSeq(out, 2 * d + 1, Len(out)), 0)

\* No call of render_block yet.
NoBlock == Block(None, << >>, << >>, << >>)
NoRendered ==
    [called |-> FALSE, block |-> NoBlock, depth |-> 0, out |-> << >>, raised |-> None,
     left |-> NoBlock]

\* render_blocks resetting the numbering when it is entered.
FieldsResetAtEntry(st) == [counters |-> {}, last |-> None]

\* The fields of the renderer that the loop of render_blocks starts from:
\* those the instance has, nothing assigns them before the loop.
FieldsAtEntry(st) == st

\* return "\n".join(lines), each being what the loop of render_blocks made
joined_lines(each) ==
    IF each.raised # None
    THEN Result(<< >>, each.raised, each.counters, each.last)
    ELSE Result(Join(<< "\n" >>, each.outs), None, each.counters, each.last)

\* MarkdownRenderer.render_blocks(blocks), the renderer's fields being st
\* before the call.
render_blocks(st, blocks) == joined_lines(render_each(FieldsAtEntry(st), blocks, 0))

\* No call of render_blocks yet.  calls counts the calls made of this
\* renderer; before holds its fields when the last call was made.
NoBlocksCall ==
    [calls |-> 0, blocks |-> << >>, out |-> << >>, raised |-> None,
     before |-> [counters |-> {}, last |-> None]]

(* ------------------------------ PagesAPI ------------------------------ *)

\* RICH_TEXT_BLOCK_TYPES and CODE_BLOCK_TYPE: the types with a rich_text
RICH_TEXT_BLOCK_TYPES ==
    {"paragraph", "heading_1", "heading_2", "heading_3", "bulleted_list_item",
     "numbered_list_item", "to_do", "toggle", "quote", "callout"}
CODE_BLOCK_TYPE == "code"

\* A run as the API returns it, with its plain_text.
Fetched(text) == [has_plain_text |-> TRUE, plain_text |-> text, content |-> text]

\* {"type": "text", "text": {"content": new_text}}: the run that
\* _replace_in_rich_text returns; it has no plain_text.
Simple(new_text) == [has_plain_text |-> FALSE, plain_text |-> << >>, content |-> new_text]

RECURSIVE get_plain_text(_)
\* _get_plain_text: "".join(segment.get("plain_text", "") for segment in rich_text)
get_plain_text(rich_text) ==
    IF rich_text = << >> THEN << >>
    ELSE (IF Head(rich_text).has_plain_text THEN Head(rich_text).plain_text ELSE << >>)
            \o get_plain_text(Tail(rich_text))

\* str.lower of a character of the model
lower(c) == IF c = "J" THEN "j" ELSE c

\* The pattern re.escape(find_text) matches plain at i (from 1), under
\* re.IGNORECASE when ignore_case.
MatchesAt(plain, find_text, i, ignore_case) ==
    /\ i + Len(find_text) - 1 <= Len(plain)
    /\ \A k \in 1..Len(find_text) :
          IF ignore_case THEN lower(plain[i + k - 1]) = lower(find_text[k])
                         ELSE plain[i + k - 1] = find_text[k]

RECURSIVE finditer(_, _, _, _)
\* [(m.start(), m.end()) for m in re.finditer(pattern, plain, flags)] from
\* i on: the matches from the left that do not overlap; find_text is not
\* empty.
finditer(find_text, plain, i, ignore_case) ==
    IF i > Len(plain) THEN << >>
    ELSE IF MatchesAt(plain, find_text, i, ignore_case)
    THEN << << i - 1, i - 1 + Len(find_text) >> >>
            \o finditer(find_text, plain, i + Len(find_text), ignore_case)
    ELSE finditer(find_text, plain, i + 1, ignore_case)

\* _search_in_rich_text
search_in_rich_text(rich_text, find_text, ignore_case) ==
    finditer(find_text, get_plain_text(rich_text), 1, ignore_case)

RECURSIVE template(_)
\* re.sub reading its replacement: "\\\\" stands for one backslash; a
\* backslash before a letter that names no escape, or at the end, is a
\* re.error; every other character stands for itself.
template(replace_text) ==
    IF replace_text = << >> THEN [raised |-> None, text |-> << >>]
    ELSE IF Head(replace_text) # "\\"
    THEN LET rest == template(Tail(replace_text))
         IN  [rest EXCEPT !.text = << Head(replace_text) >> \o @]
    ELSE IF Len(replace_text) >= 2 /\ replace_text[2] = "\\"
    THEN LET rest == template(Tail(Tail(replace_text)))
         IN  [rest EXCEPT !.text = << "\\" >> \o @]
    ELSE [raised |-> "error", text |-> << >>]

RECURSIVE sub_from(_, _, _, _, _)
\* re.sub from i on, each match replaced by the text of the template
sub_from(find_text, text, plain, i, ignore_case) ==
    IF i > Len(plain) THEN << >>
    ELSE IF MatchesAt(plain, find_text, i, ignore_case)
    THEN text \o sub_from(find_text, text, plain, i + Len(find_text), ignore_case)
    ELSE << plain[i] >> \o sub_from(find_text, text, plain, i + 1, ignore_case)

\* _replace_in_rich_text: the plain text of rich_text with every match
\* replaced, as one simple run.
replace_in_rich_text(rich_text, find_text, replace_text, ignore_case) ==
    LET plain == get_plain_text(rich_text)
        t == template(replace_text)
    IN  IF t.raised # None
        THEN [raised |-> t.raised, rich_text |-> << >>]
        ELSE [raised |-> None,
              rich_text |-> << Simple(sub_from(find_text, t.text, plain, 1, ignore_case)) >>]

\* _get_context(text, start, end, context_chars=30)
context_chars == 30
get_context(text, start, end) ==
    LET ctx_start == Max(0, start - context_chars)
        ctx_end == Min(Len(text), end + context_chars)
        prefix == IF ctx_start > 0 THEN << ".", ".", "." >> ELSE << >>
        suffix == IF ctx_end < Len(text) THEN << ".", ".", "." >> ELSE << >>
    IN  prefix \o SubSeq(text, ctx_start + 1, start) \o << "[" >>
          \o SubSeq(text, start + 1, end) \o << "]" >>
          \o SubSeq(text, end + 1, ctx_end) \o suffix

\* replace_text: None (find only) or a str
NoReplace == [is_none |-> TRUE, text |-> << >>]
ReplaceWith(text) == [is_none |-> FALSE, text |-> text]

\* A block as retrieve_children_all returns it: its id, type, the
\* rich_text of its payload, to_do's checked and its children.
PageBlock(id, type, rich_text, checked, children) ==
    [id |-> id, type |-> type, rich_text |-> rich_text, checked |-> checked,
     children |-> children]

\* What _process_blocks_for_replace has done: the calls of
\* blocks_api.update in order, the matches appended, and the exception
\* that ended it, if one did.
Done(updates, matches, raised) ==
    [updates |-> updates, matches |-> matches, raised |-> raised]

RECURSIVE for_found_positions(_, _, _, _, _, _, _)
\* for start, end in found_positions: ... of one block; after an update
\* the loop goes on with rich_text = new_rich_text.
for_found_positions(block, rich_text, plain_text, found_positions, find_text, replace_text, ignore_case) ==
    IF found_positions = << >> THEN Done(<< >>, << >>, None)
    ELSE LET context == get_context(plain_text, Head(found_positions)[1],
                                    Head(found_positions)[2])
             match_info(replaced) ==
                 [block_id |-> block.id, block_type |-> block.type,
                  context |-> context, replaced |-> replaced]
         IN  IF replace_text.is_none
             THEN LET rest == for_found_positions(block, rich_text, plain_text,
                                  Tail(found_positions), find_text, replace_text,
                                  ignore_case)
                  IN  [rest EXCEPT !.matches = << match_info(FALSE) >> \o @]
             ELSE LET new == replace_in_rich_text(rich_text, find_text,
                                                  replace_text.text, ignore_case)
                      update_data ==
                          [block_id |-> block.id, type_key |-> block.type,
                           content |-> new.rich_text[1].content,
                           checked |-> IF block.type = "to_do" THEN Given(block.checked)
                                                               ELSE NotGiven]
                  IN  IF new.raised # None
                      THEN Done(<< >>, << >>, new.raised)
                      ELSE LET rest == for_found_positions(block, new.rich_text,
                                           plain_text, Tail(found_positions),
                                           find_text, replace_text, ignore_case)
                           IN  [rest EXCEPT !.updates = << update_data >> \o @,
                                            !.matches = << match_info(TRUE) >> \o @]

RECURSIVE process_blocks_for_replace(_, _, _, _)
\* PagesAPI._process_blocks_for_replace: each block, then its children
process_blocks_for_replace(blocks, find_text, replace_text, ignore_case) ==
    IF blocks = << >> THEN Done(<< >>, << >>, None)
    ELSE LET block == Head(blocks)
             rich_text == IF block.type \in RICH_TEXT_BLOCK_TYPES \cup {CODE_BLOCK_TYPE}
                          THEN block.rich_text ELSE << >>
             found_positions == search_in_rich_text(rich_text, find_text, ignore_case)
             own == IF rich_text # << >> /\ found_positions # << >>
                    THEN for_found_positions(block, rich_text, get_plain_text(rich_text),
                                             found_positions, find_text, replace_text,
                                             ignore_case)
                    ELSE Done(<< >>, << >>, None)
             followed(first, second) ==
                 IF first.raised # None THEN first
                 ELSE Done(first.updates \o second.updates,
                           first.matches \o second.matches, second.raised)
         IN  IF own.raised # None THEN own
             ELSE LET below == process_blocks_for_replace(block.children, find_text,
                                                          replace_text, ignore_case)
                      here == followed(own, below)
                  IN  IF here.raised # None THEN here
                      ELSE followed(here, process_blocks_for_replace(Tail(blocks), find_text,
                                                                 replace_text, ignore_case))

\* PagesAPI.find_replace, all_blocks being what retrieve_children_all
\* returned: what it sent, and what it returns unless it raises.
find_replace(all_blocks, find_text, replace_text, ignore_case) ==
    LET done == process_blocks_for_replace(all_blocks, find_text, replace_text,
                                           ignore_case)
        replaced == { i \in 1..Len(done.matches) : done.matches[i].replaced }
    IN  [made |-> TRUE, all_blocks |-> all_blocks, find |-> find_text,
         replace |-> replace_text, ignore_case |-> ignore_case,
         updates |-> done.updates, matches |-> done.matches, raised |-> done.raised,
         total_matches |-> Len(done.matches),
         blocks_modified |-> IF replace_text.is_none THEN 0 ELSE Cardinality(replaced)]

\* No call of find_replace yet.
NoReplaceCall ==
    [made |-> FALSE, all_blocks |-> << >>, find |-> << >>, replace |-> NoReplace,
     ignore_case |-> FALSE, updates |-> << >>, matches |-> << >>, raised |-> None,
     total_matches |-> 0, blocks_modified |-> 0]

Init ==
    /\ settings \in [use_cache : BOOLEAN, max_retries : 1..MaxRetries]
    /\ tokens = max_burst
    /\ since_refill = 0
    /\ cache_opened = FALSE
    /\ store = [k \in Keys |-> NoEntry]
    /\ pc = "idle"
    /\ call = NoCall
    /\ attempt_number = 0
    /\ retry_after = NoneInt
    /\ attempt_exc = NoExc
    /\ response = NoResponse
    /\ http_calls = 0
    /\ history = << >>
    /\ outcome = NoOutcome
    /\ waited = NoneInt
    /\ lock = None
    /\ threads = [t \in Threads |-> IdleThread]
    /\ epoch = Fresh
    /\ cache_call = NoCacheCall
    /\ set_log = [k \in Keys |-> NeverSet]
    /\ acquired = 0
    /\ numbered_list_counters = {}
    /\ last_block_type = None
    /\ depth = 0
    /\ rendered = NoRendered
    /\ siblings = << >>
    /\ rich_text_call = NoRichTextCall
    /\ blocks_call = NoBlocksCall
    /\ replace_call = NoReplaceCall

\* A second passes between two requests.
Tick ==
    /\ pc = "idle"
    /\ since_refill' = Elapsed(SecondsToTicks(1))
    /\ store' = Aged(SecondsToTicks(1))
    /\ UNCHANGED << settings, tokens, cache_opened, pc, call, attempt_number,
                    retry_after, attempt_exc, response, http_calls, history, outcome >>
    /\ set_log' = LogAged(SecondsToTicks(1))
    /\ UNCHANGED << waited, lock, threads, epoch, cache_call, acquired >>
    /\ UNCHANGED render_vars

\* NotionClient.request, to the cache lookup: a hit returns, a miss starts
\* the first attempt.
Request(method, endpoint, params, use_cache) ==
    LET c == [method |-> method, endpoint |-> endpoint, params |-> params,
              use_cache |-> use_cache]
        lookup == MayStore(c)
        cached == IF lookup THEN CacheGet(endpoint, params) ELSE NoBody
    IN  /\ pc = "idle"
        /\ call' = c
        /\ cache_opened' = (cache_opened \/ (lookup /\ CacheEnabled))
        /\ http_calls' = 0
        /\ history' = << >>
        /\ attempt_exc' = NoExc
        /\ response' = NoResponse
        /\ IF cached # NoBody
           THEN /\ outcome' = Returned(cached, TRUE)
                /\ pc' = "idle"
                /\ attempt_number' = 0
           ELSE /\ outcome' = NoOutcome
                /\ pc' = AttemptStart
                /\ attempt_number' = 1
        /\ waited' = NoneInt
        /\ acquired' = 0
        /\ UNCHANGED << settings, tokens, since_refill, store, retry_after >>
        /\ UNCHANGED << lock, threads, epoch, cache_call, set_log >>
        /\ UNCHANGED render_vars

\* RateLimiter.acquire() of _make_request, a token being there after the
\* refill: take it.
AcquireToken ==
    /\ pc = "acquire"
    /\ Refilled >= 1
    /\ tokens' = Refilled - 1
    /\ since_refill' = 0
    /\ pc' = "http"
    /\ acquired' = acquired + (Refilled - tokens')
    /\ UNCHANGED << settings, cache_opened, store, call, attempt_number, retry_after,
                    attempt_exc, response, http_calls, history, outcome >>
    /\ UNCHANGED << waited, lock, threads, epoch, cache_call, set_log >>
    /\ UNCHANGED render_vars

\* RateLimiter.acquire() with no token after the refill: sleep
\* (1 - tokens) / requests_per_second and look again.
AcquireSleep ==
    /\ pc = "acquire"
    /\ Refilled < 1
    /\ tokens' = Refilled
    /\ since_refill' = 1 - Refilled
    /\ store' = Aged(1 - Refilled)
    /\ set_log' = LogAged(1 - Refilled)
    /\ UNCHANGED << settings, cache_opened, pc, call, attempt_number, retry_after,
                    attempt_exc, response, http_calls, history, outcome >>
    /\ UNCHANGED << waited, lock, threads, epoch, cache_call, acquired >>
    /\ UNCHANGED render_vars

\* The attempt raised exc: tenacity retries it after a wait, or lets it out.
AttemptRaised(exc) ==
    /\ attempt_exc' = exc
    /\ history' = Append(history, AttemptClass(exc))
    /\ retry_after' = NoneInt
    /\ IF retry_if_exception_type(exc) /\ ~stop_after_attempt(attempt_number)
       THEN /\ pc' = "backoff"
            /\ outcome' = outcome
       ELSE /\ pc' = "idle"
            /\ outcome' = Raised(Reraise(exc))

\* The attempt returned value: request stores it if it may and returns it.
AttemptReturned(value) ==
    /\ attempt_exc' = NoExc
    /\ history' = Append(history, "ok")
    /\ retry_after' = NoneInt
    /\ pc' = "idle"
    /\ outcome' = Returned(value, FALSE)
    /\ IF MayStore(call)
       THEN /\ store' = CacheSet(store, call.endpoint, call.params, value, NoneInt)
            /\ cache_opened' = (cache_opened \/ CacheEnabled)
            /\ set_log' = IF CacheEnabled
                          THEN Logged(call.endpoint, call.params, value, NoneInt)
                          ELSE set_log
       ELSE UNCHANGED << store, cache_opened, set_log >>

\* _make_request after the acquire: the HTTP call and what is made of its
\* response.
HttpCall(resp) ==
    /\ pc = "http"
    /\ http_calls' = http_calls + 1
    /\ response' = resp
    /\ UNCHANGED << settings, tokens, since_refill, call, attempt_number >>
    /\ UNCHANGED << waited, lock, threads, epoch, cache_call, acquired >>
    /\ UNCHANGED render_vars
    /\ IF resp.transport # None
       THEN /\ AttemptRaised(Exc("NetworkError", resp.transport, Absent, AbsentInt))
            /\ UNCHANGED << store, cache_opened, set_log >>
       ELSE IF resp.status_code = 429
       THEN LET header == retry_after_of(resp)
            IN  IF header \in DOMAIN DecimalStrings
                THEN /\ retry_after' = DecimalStrings[header]
                     /\ pc' = "wait_for_retry"
                     /\ UNCHANGED << store, cache_opened, set_log, attempt_exc, history, outcome >>
                ELSE /\ AttemptRaised(PyExc("ValueError"))
                     /\ UNCHANGED << store, cache_opened, set_log >>
       ELSE IF resp.status_code >= 400
       THEN LET body == IF resp.body.shape = "text"
                        THEN [shape |-> "object", raw |-> resp.body.raw,
                              message |-> resp.body.raw, code |-> Absent]
                        ELSE resp.body
            IN  /\ AttemptRaised(exception_from_response(resp.status_code, body))
                /\ UNCHANGED << store, cache_opened, set_log >>
       ELSE IF resp.body.shape = "text"
            THEN /\ AttemptRaised(PyExc("JSONDecodeError"))
                 /\ UNCHANGED << store, cache_opened, set_log >>
            ELSE AttemptReturned(resp.body)

\* RateLimiter.wait_for_retry(retry_after), then the RateLimitError of
\* _make_request.
WaitForRetry ==
    /\ pc = "wait_for_retry"
    /\ tokens' = max_burst
    /\ since_refill' = 0
    /\ store' = Aged(SecondsToTicks(retry_after))
    /\ waited' = retry_after
    /\ AttemptRaised(RateLimitError("Rate limit exceeded", retry_after, 0))
    /\ set_log' = LogAged(SecondsToTicks(retry_after))
    /\ UNCHANGED << settings, cache_opened, call, attempt_number, response, http_calls >>
    /\ UNCHANGED << lock, threads, epoch, cache_call, acquired >>
    /\ UNCHANGED render_vars

\* tenacity sleeps wait_exponential and starts the next attempt.
Backoff ==
    /\ pc = "backoff"
    /\ since_refill' = Elapsed(SecondsToTicks(wait_exponential(attempt_number)))
    /\ store' = Aged(SecondsToTicks(wait_exponential(attempt_number)))
    /\ attempt_number' = attempt_number + 1
    /\ set_log' = LogAged(SecondsToTicks(wait_exponential(attempt_number)))
    /\ pc' = AttemptStart
    /\ waited' = NoneInt
    /\ UNCHANGED << settings, tokens, cache_opened, call, retry_after, attempt_exc,
                    response, http_calls, history, outcome >>
    /\ UNCHANGED << lock, threads, epoch, cache_call, acquired >>
    /\ UNCHANGED render_vars

\* Requests made back to back at a server that may answer anything.
Next ==
    \/ \E m \in SomeMethods, e \in Endpoints : Request(m, e, NoParams, NotGiven)
    \/ AcquireToken
    \/ AcquireSleep
    \/ \E r \in Responses : HttpCall(r)
    \/ WaitForRetry
    \/ Backoff

Spec == Init /\ [][Next]_vars

\* The same requests, with every call that a request makes returning: the
\* acquire of the limiter and its sleep, the HTTP call, the wait after a
\* 429 and the sleep of the backoff.  Nothing says that a next request is
\* ever made.
EveryCallReturns ==
    /\ WF_vars(AcquireToken)
    /\ WF_vars(AcquireSleep)
    /\ WF_vars(\E r \in Responses : HttpCall(r))
    /\ WF_vars(WaitForRetry)
    /\ WF_vars(Backoff)

SpecReturns == Spec /\ EveryCallReturns

\* Requests of every method, params and use_cache, with time passing
\* between them, at a server that answers or fails.
NextCache ==
    \/ Tick
    \/ \E m \in Methods, e \in Endpoints, p \in Params, u \in CacheOverrides :
          Request(m, e, p, u)
    \/ AcquireToken
    \/ AcquireSleep
    \/ \E r \in SomeResponses : HttpCall(r)
    \/ Backoff

InitCache == Init /\ settings.max_retries = MaxRetries

SpecCache == InitCache /\ [][NextCache]_vars

(* --------------- the RateLimiter called by several threads ------------ *)

client_vars == << settings, cache_opened, store, pc, call, attempt_number,
                  retry_after, attempt_exc, response, http_calls, history,
                  outcome, waited, cache_call, set_log, acquired >>

\* A thread calls acquire(timeout): start_time is taken, then the lock is
\* asked for.
ThreadAcquire(t, timeout) ==
    /\ threads[t].pc = "idle"
    /\ threads' = [threads EXCEPT ![t] =
          [pc |-> "lock", op |-> "acquire",
           timeout |-> IF timeout = NoneInt THEN NoneInt ELSE SecondsToTicks(timeout),
           elapsed |-> 0, sleep |-> 0, ok |-> FALSE, slept |-> FALSE]]
    /\ UNCHANGED << tokens, since_refill, lock, epoch >>
    /\ UNCHANGED client_vars
    /\ UNCHANGED render_vars

\* A thread calls reset(): the lock is asked for.
ThreadReset(t) ==
    /\ threads[t].pc = "idle"
    /\ threads' = [threads EXCEPT ![t] =
          [IdleThread EXCEPT !.pc = "lock", !.op = "reset"]]
    /\ UNCHANGED << tokens, since_refill, lock, epoch >>
    /\ UNCHANGED client_vars
    /\ UNCHANGED render_vars

\* A thread calls wait_for_retry(retry_after): it sleeps first.
ThreadWaitForRetry(t, seconds) ==
    /\ threads[t].pc = "idle"
    /\ threads' = [threads EXCEPT ![t] =
          [IdleThread EXCEPT !.pc = "sleep", !.op = "wait_for_retry",
                             !.sleep = SecondsToTicks(seconds), !.slept = TRUE]]
    /\ UNCHANGED << tokens, since_refill, lock, epoch >>
    /\ UNCHANGED client_vars
    /\ UNCHANGED render_vars

\* with self._lock / self._lock.acquire(): the thread gets the free lock.
TakeLock(t) ==
    /\ threads[t].pc = "lock"
    /\ lock = None
    /\ lock' = t
    /\ threads' = [threads EXCEPT ![t].pc = "locked"]
    /\ UNCHANGED << tokens, since_refill, epoch >>
    /\ UNCHANGED client_vars
    /\ UNCHANGED render_vars

\* acquire, under the lock: after the refill there is a token; it is taken
\* and acquire returns True.
AcquireGranted(t) ==
    /\ threads[t].pc = "locked"
    /\ threads[t].op = "acquire"
    /\ HasToken
    /\ tokens' = AfterTaking(Refilled)
    /\ since_refill' = 0
    /\ lock' = None
    /\ threads' = [threads EXCEPT ![t] =
          [IdleThread EXCEPT !.op = "acquire", !.ok = TRUE, !.slept = threads[t].slept]]
    /\ epoch' = [epoch EXCEPT !.granted = Min(@ + 1, max_burst + MaxClock)]
    /\ UNCHANGED client_vars
    /\ UNCHANGED render_vars

\* acquire, under the lock: no token after the refill and nothing left of
\* the timeout; acquire returns False.
AcquireTimedOut(t) ==
    /\ threads[t].pc = "locked"
    /\ threads[t].op = "acquire"
    /\ ~HasToken
    /\ threads[t].timeout # NoneInt
    /\ Remaining(t) <= 0
    /\ tokens' = Refilled
    /\ since_refill' = 0
    /\ lock' = None
    /\ threads' = [threads EXCEPT ![t] =
          [IdleThread EXCEPT !.op = "acquire", !.ok = FALSE, !.slept = threads[t].slept]]
    /\ epoch' = [epoch EXCEPT !.starved = TRUE]
    /\ UNCHANGED client_vars
    /\ UNCHANGED render_vars

\* acquire, under the lock: no token after the refill; the thread lets go
\* of the lock and sleeps (1 - tokens) / requests_per_second, or what is
\* left of the timeout if that is less.
AcquireWait(t) ==
    LET wait_time == 1 - Refilled
    IN  /\ threads[t].pc = "locked"
        /\ threads[t].op = "acquire"
        /\ ~HasToken
        /\ threads[t].timeout # NoneInt => Remaining(t) > 0
        /\ tokens' = Refilled
        /\ since_refill' = 0
        /\ lock' = LockWhileSleeping(t)
        /\ threads' = [threads EXCEPT
              ![t].pc = "sleep",
              ![t].slept = TRUE,
              ![t].sleep = IF threads[t].timeout = NoneInt THEN wait_time
                           ELSE Min(wait_time, Remaining(t))]
        /\ epoch' = [epoch EXCEPT !.starved = TRUE]
        /\ UNCHANGED client_vars
        /\ UNCHANGED render_vars

\* time.sleep returns: the thread asks for the lock (again, in acquire).
Wake(t) ==
    /\ threads[t].pc = "sleep"
    /\ threads[t].sleep = 0
    /\ threads' = [threads EXCEPT ![t].pc = "lock"]
    /\ UNCHANGED << tokens, since_refill, lock, epoch >>
    /\ UNCHANGED client_vars
    /\ UNCHANGED render_vars

\* reset and the end of wait_for_retry, under the lock: the bucket is
\* filled, last_refill is now, and the call returns.
Fill(t) ==
    /\ threads[t].pc = "locked"
    /\ threads[t].op \in {"reset", "wait_for_retry"}
    /\ tokens' = ResetTokens
    /\ since_refill' = 0
    /\ lock' = None
    /\ threads' = [threads EXCEPT ![t].pc = "idle"]
    /\ epoch' = Filled(threads[t].op)
    /\ UNCHANGED client_vars
    /\ UNCHANGED render_vars

\* A tick passes.  Computing takes no time: the clock moves when every
\* thread is between two calls or asleep.
LimiterTick ==
    /\ \A t \in Threads :
          \/ threads[t].pc = "idle"
          \/ threads[t].pc = "sleep" /\ threads[t].sleep > 0
    /\ since_refill' = ClockAfterTick
    /\ threads' = [t \in Threads |->
          IF threads[t].pc = "sleep"
          THEN [threads[t] EXCEPT
                  !.sleep = @ - 1,
                  !.elapsed = IF threads[t].timeout = NoneInt THEN 0
                              ELSE Min(@ + 1, SecondsToTicks(MaxSeconds) + 1)]
          ELSE threads[t]]
    /\ epoch' = [epoch EXCEPT !.clock = Min(@ + 1, MaxClock)]
    /\ UNCHANGED << tokens, lock >>
    /\ UNCHANGED client_vars
    /\ UNCHANGED render_vars

NextLimiter ==
    \/ \E t \in Threads, timeout \in Timeouts : ThreadAcquire(t, timeout)
    \/ \E t \in Threads : ThreadReset(t)
    \/ \E t \in Threads, seconds \in RetryAfters : ThreadWaitForRetry(t, seconds)
    \/ \E t \in Threads : TakeLock(t)
    \/ \E t \in Threads : AcquireGranted(t)
    \/ \E t \in Threads : AcquireTimedOut(t)
    \/ \E t \in Threads : AcquireWait(t)
    \/ \E t \in Threads : Wake(t)
    \/ \E t \in Threads : Fill(t)
    \/ LimiterTick

InitLimiter == Init /\ settings = [use_cache |-> FALSE, max_retries |-> 1]

SpecLimiter == InitLimiter /\ [][NextLimiter]_vars

\* Threads that call acquire() without a timeout, one call after the
\* other or never again.
NextAcquire ==
    \/ \E t \in Threads : ThreadAcquire(t, NoneInt)
    \/ \E t \in Threads : TakeLock(t)
    \/ \E t \in Threads : AcquireGranted(t)
    \/ \E t \in Threads : AcquireWait(t)
    \/ \E t \in Threads : Wake(t)
    \/ LimiterTick

\* The scheduling: time passes, and a thread that again and again can take
\* a step of its call takes it (the lock is handed to every thread that
\* keeps asking for it, a sleep that is over returns).  Nothing makes a
\* thread call acquire.  This is more than the weakly fair scheduling of
\* threads gives, so a behaviour that it allows is one that weak fairness
\* allows too.
Scheduling ==
    /\ SF_vars(LimiterTick)
    /\ \A t \in Threads :
          /\ SF_vars(TakeLock(t))
          /\ SF_vars(AcquireGranted(t))
          /\ SF_vars(AcquireWait(t))
          /\ SF_vars(Wake(t))

SpecAcquire == InitLimiter /\ [][NextAcquire]_vars /\ Scheduling

(* ---------------------- the Cache called directly --------------------- *)

\* The responses that are stored, the ttl of set (None or seconds) and the
\* pattern of invalidate.
Values == {Page, ErrorBody}
Ttls == {NoneInt} \cup (0..(MaxSeconds + 1))
Patterns == {None, "/users*"}

limiter_vars == << tokens, since_refill, lock, threads, epoch >>

request_vars == << settings, pc, call, attempt_number, retry_after, attempt_exc,
                   response, http_calls, history, outcome, waited, acquired >>

\* Cache.get(endpoint, params)
CacheApiGet(endpoint, params) ==
    /\ cache_call' = [NoCacheCall EXCEPT !.op = "get", !.endpoint = endpoint,
                                         !.params = params,
                                         !.result = CacheGet(endpoint, params)]
    /\ cache_opened' = (cache_opened \/ CacheEnabled)
    /\ UNCHANGED << store, set_log >>
    /\ UNCHANGED limiter_vars
    /\ UNCHANGED request_vars
    /\ UNCHANGED render_vars

\* Cache.set(endpoint, params, value, ttl)
CacheApiSet(endpoint, params, value, ttl) ==
    /\ cache_call' = [NoCacheCall EXCEPT !.op = "set", !.endpoint = endpoint,
                                         !.params = params, !.value = value,
                                         !.ttl = ttl]
    /\ store' = CacheSet(store, endpoint, params, value, ttl)
    /\ cache_opened' = (cache_opened \/ CacheEnabled)
    /\ set_log' = Logged(endpoint, params, value, ttl)
    /\ UNCHANGED limiter_vars
    /\ UNCHANGED request_vars
    /\ UNCHANGED render_vars

\* Cache.invalidate(pattern): the pattern is not looked at.
CacheApiInvalidate(pattern) ==
    /\ cache_call' = [NoCacheCall EXCEPT !.op = "invalidate", !.pattern = pattern,
                                         !.count = IF CacheEnabled THEN CacheLen ELSE 0]
    /\ store' = IF CacheEnabled THEN Cleared ELSE store
    /\ cache_opened' = (cache_opened \/ CacheEnabled)
    /\ set_log' = [k \in Keys |-> NeverSet]
    /\ UNCHANGED limiter_vars
    /\ UNCHANGED request_vars
    /\ UNCHANGED render_vars

NextCacheApi ==
    \/ Tick
    \/ \E e \in Endpoints, p \in AllParams : CacheApiGet(e, p)
    \/ \E e \in Endpoints, p \in AllParams, v \in Values, ttl \in Ttls :
          CacheApiSet(e, p, v, ttl)
    \/ \E pattern \in Patterns : CacheApiInvalidate(pattern)

InitCacheApi == Init /\ settings.max_retries = 1

SpecCacheApi == InitCacheApi /\ [][NextCacheApi]_vars

(* ------------------------- rich text rendered -------------------------- *)

\* The runs that are rendered: text, with or without a link, in brackets
\* or not, or empty; mentions of a user, a page and a date; equations;
\* every set of annotations; no href, an empty one, or one.
Contents == { << >>, << "x" >>, << "[", "x", "]" >> }
Links == { NoUrl, Url(<< "u" >>) }
Hrefs == { NoUrl, Url(<< >>), Url(<< "h" >>) }
AnnotationSets == SUBSET { Annotations[i] : i \in 1..Len(Annotations) }
Segments ==
    { Segment("text", None, c, l, a, h) :
        c \in Contents, l \in Links, a \in AnnotationSets, h \in Hrefs }
    \cup { Segment("mention", mt, c, NoUrl, a, h) :
        mt \in {"user", "page", "date"}, c \in { << >>, << "x" >> },
        a \in AnnotationSets, h \in Hrefs }
    \cup { Segment("equation", None, c, NoUrl, a, h) :
        c \in { << >>, << "x" >> }, a \in AnnotationSets, h \in Hrefs }

\* _render_text_segment(segment), as render_rich_text calls it on each run
RenderTextSegment(segment) ==
    /\ rich_text_call' = [called |-> TRUE, segment |-> segment,
                          out |-> render_text_segment(segment)]
    /\ UNCHANGED << numbered_list_counters, last_block_type, depth, rendered, siblings >>
    /\ UNCHANGED blocks_call
    /\ UNCHANGED service_vars
    /\ UNCHANGED replace_call

NextRichText == \E segment \in Segments : RenderTextSegment(segment)

InitRichText == Init /\ settings = [use_cache |-> FALSE, max_retries |-> 1]

SpecRichText == InitRichText /\ [][NextRichText]_vars

(* --------------------------- blocks rendered --------------------------- *)

\* A renderer renders at most MaxSiblings blocks one after the other.
MaxSiblings == 3
\* render_blocks is called at most MaxCalls times on a renderer.
MaxCalls == 2
\* A table has at most MaxRows rows of at most MaxCells cells.
MaxRows == 3
MaxCells == 2

\* The depth of the blocks a renderer is given: render_blocks gives it the
\* top-level blocks (depth 0), the loop over the children of a block those
\* children (depth 1 for the children of a top-level block).
Depths == {0, 1}

\* The rich text of one plain run.
Text(c) == << Plain(<< c >>) >>

Paragraph(c) == Block("paragraph", Text(c), << >>, << >>)
Numbered(c, children) == Block("numbered_list_item", Text(c), children, << >>)
Column(children) == Block("column", << >>, children, << >>)
ColumnList(columns) == Block("column_list", << >>, columns, << >>)
TableRow(n) == Block("table_row", << >>, << >>, [j \in 1..n |-> Text("x")])

\* The children that the blocks below carry.  The texts are letters that
\* the renderer writes in no markup of its own.
Children ==
    { << Paragraph("g") >>,
      << Numbered("g", << >>) >>,
      << Numbered("g", << >>), Numbered("h", << >>) >>,
      << Paragraph("g"), Numbered("h", << >>) >> }

\* Type names for which the renderer has no handler of a block.
UnknownTypes == { "foo", "unsupported", "text_segment", "mention" }

\* The blocks that are rendered: without children, with children, and with
\* children that have children.
Blocks ==
    { Paragraph("j"), Numbered("j", << >>),
      Block("heading_1", Text("j"), << >>, << >>),
      Block("divider", << >>, << >>, << >>),
      Block("toggle", Text("j"), << >>, << >>),
      Block("table", << >>, << TableRow(2), TableRow(1) >>, << >>),
      ColumnList(<< >>) }
    \cup { Block(t, << >>, << >>, << >>) : t \in UnknownTypes }
    \cup { Block(t, Text("j"), children, << >>) :
             t \in { "numbered_list_item", "paragraph", "bulleted_list_item",
                     "toggle", "synced_block", "foo" },
             children \in Children }
    \cup { ColumnList(<< Column(children) >>) : children \in Children }
    \cup { ColumnList(<< Column(<< Paragraph("g") >>),
                         Column(<< Numbered("h", << >>) >>) >>),
           Block("toggle", Text("j"),
                 << Paragraph("g"),
                    Block("toggle", Text("k"), << Paragraph("h") >>, << >>) >>,
                 << >>),
           Block("toggle", Text("j"),
                 << Numbered("g", << Paragraph("h") >>) >>, << >>),
           Numbered("j", << Numbered("g", << Paragraph("h") >>) >>),
           Numbered("j", << Numbered("g", << Paragraph("h") >>),
                            Numbered("h", << >>) >>),
           Numbered("j", << Block("toggle", Text("g"), << Paragraph("h") >>, << >>) >>),
           ColumnList(<< Column(<< Block("toggle", Text("g"), << Paragraph("h") >>, << >>) >>) >>),
           Block("toggle", Text("j"),
                 << Block("toggle", Text("g"), << Paragraph("h") >>, << >>),
                    Block("mention", << >>, << >>, << >>),
                    Block("toggle", Text("k"), << Paragraph("h") >>, << >>) >>,
                 << >>) }

\* The tables that are rendered: every number of rows and, in each row,
\* every number of cells.
Tables ==
    { Block("table", << >>, [i \in 1..n |-> TableRow(cells[i])], << >>) :
        n \in 0..MaxRows, cells \in [1..MaxRows -> 0..MaxCells] }

\* MarkdownRenderer(): a new renderer, for siblings at depth d
NewRenderer(d) ==
    /\ numbered_list_counters' = {}
    /\ last_block_type' = None
    /\ depth' = d
    /\ rendered' = NoRendered
    /\ siblings' = << >>
    /\ blocks_call' = NoBlocksCall
    /\ UNCHANGED rich_text_call
    /\ UNCHANGED service_vars
    /\ UNCHANGED replace_call

\* render_block(block, depth) on the next sibling.  siblings keeps, of each
\* call, whether the block was a numbered_list_item and the ordinal its
\* rendering began with.
RenderBlock(block) ==
    LET numbered == block.type = "numbered_list_item"
    IN  \E r \in { render_block([counters |-> numbered_list_counters,
                                  last |-> last_block_type], block, depth) } :
        /\ Len(siblings) < MaxSiblings
        /\ numbered_list_counters' = r.counters
        /\ last_block_type' = r.last
        /\ rendered' = [called |-> TRUE, block |-> block, depth |-> depth,
                        out |-> r.out, raised |-> r.raised,
                        left |-> block_after(block)]
        /\ siblings' = Append(siblings,
              [numbered |-> numbered,
               ordinal |-> IF numbered /\ r.raised = None
                           THEN OrdinalOf(r.out, depth) ELSE 0])
        /\ UNCHANGED << depth, rich_text_call, blocks_call >>
        /\ UNCHANGED service_vars
        /\ UNCHANGED replace_call

NextRender ==
    \/ \E d \in Depths : NewRenderer(d)
    \/ \E block \in Blocks : RenderBlock(block)

InitRender == Init /\ settings = [use_cache |-> FALSE, max_retries |-> 1]

SpecRender == InitRender /\ [][NextRender]_vars

\* The texts of the quotes and callouts: of one, two and three lines, a
\* line being empty in some; the second run of a text is bold.
QuoteTexts ==
    { << >>, Text("g"),
      << Plain(<< "g", "\n", "h" >>) >>,
      << Plain(<< "g", "\n" >>), Segment("text", None, << "h" >>, NoUrl, {"bold"}, NoUrl) >>,
      << Plain(<< "g", "\n", "\n", "h" >>) >>,
      << Plain(<< "g", "\n", "h", "\n", "k" >>) >> }

\* The icons of the callouts.
Icons ==
    { AbsentIcon,
      Icon("None", None, << >>, << >>),
      Icon("dict", "emoji", << "!" >>, << >>),
      Icon("dict", "emoji", << >>, << >>),
      Icon("dict", "external", << >>, << "u", "/", "i" >>),
      Icon("dict", "file", << >>, << >>) }

Quote(rich_text) == Block("quote", rich_text, << >>, << >>)
Callout(rich_text, icon) ==
    [type |-> "callout", rich_text |-> rich_text, children |-> << >>,
     cells |-> << >>, icon |-> icon]

Quotes ==
    { Quote(text) : text \in QuoteTexts }
    \cup { Callout(text, icon) : text \in QuoteTexts, icon \in Icons \ {AbsentIcon} }
    \cup { Block("callout", text, << >>, << >>) : text \in QuoteTexts }

NextQuote ==
    \/ \E d \in Depths : NewRenderer(d)
    \/ \E block \in Quotes : RenderBlock(block)

SpecQuote == InitRender /\ [][NextQuote]_vars

\* The lists of blocks given to render_blocks: one or two of these blocks,
\* or none.
ListedBlocks ==
    { Paragraph("j"), Numbered("j", << >>),
      Numbered("j", << Numbered("g", << >>), Numbered("h", << >>) >>),
      Numbered("j", << Paragraph("g") >>),
      Block("toggle", Text("j"), << Numbered("g", << >>) >>, << >>),
      Block("bulleted_list_item", Text("j"),
            << Numbered("g", << Numbered("h", << >>) >>) >>, << >>),
      Block("mention", << >>, << >>, << >>) }
BlockLists ==
    { << >> } \cup { << b >> : b \in ListedBlocks }
    \cup { << b, c >> : b \in ListedBlocks, c \in ListedBlocks }

\* render_blocks(blocks) on a renderer that has been called fewer than
\* MaxCalls times.
RenderBlocks(blocks) ==
    LET st == [counters |-> numbered_list_counters, last |-> last_block_type]
    IN  \E r \in { render_blocks(st, blocks) } :
        /\ blocks_call.calls < MaxCalls
        /\ depth = 0
        /\ siblings = << >>
        /\ numbered_list_counters' = r.counters
        /\ last_block_type' = r.last
        /\ blocks_call' = [calls |-> blocks_call.calls + 1, blocks |-> blocks,
                           out |-> r.out, raised |-> r.raised, before |-> st]
        /\ UNCHANGED << depth, rendered, siblings, rich_text_call >>
        /\ UNCHANGED service_vars
        /\ UNCHANGED replace_call

NextBlocks ==
    \/ NewRenderer(0)
    \/ \E blocks \in BlockLists : RenderBlocks(blocks)

SpecBlocks == InitRender /\ [][NextBlocks]_vars

NextTable ==
    \/ \E d \in Depths : NewRenderer(d)
    \/ \E table \in Tables : RenderBlock(table)

SpecTable == InitRender /\ [][NextTable]_vars

(* ------------------------- PagesAPI.find_replace ----------------------- *)

\* The strs of up to n characters of chars.
Strs(chars, n) == UNION { [1..k -> chars] : k \in 0..n }

\* The texts of the blocks, in one run or in two; "J" is "j" in upper case.
PageTexts ==
    { << >> } \cup { << Fetched(s) >> : s \in Strs({"j", "J", "g"}, MaxText) }
    \cup { << Fetched(s), Fetched(t) >> : s \in Strs({"j", "J", "g"}, 1) \ { << >> },
                                          t \in Strs({"j", "J", "g"}, 1) \ { << >> } }
FindTexts == Strs({"j", "J", "g"}, MaxFind) \ { << >> }
ReplaceTexts == { NoReplace } \cup { ReplaceWith(s) : s \in Strs({"h", "j", "\\"}, MaxReplace) }

\* The pages: a block "a" of a type with rich_text (to_do with its checked)
\* or without, alone or with the child "b", a paragraph.
Pages ==
    { << PageBlock("a", type, rich_text, type = "to_do", children) >> :
        type \in {"paragraph", "to_do", "image"}, rich_text \in PageTexts,
        children \in { << >>, << PageBlock("b", "paragraph", << Fetched(<< "j", "j" >>) >>,
                                          FALSE, << >>) >> } }

\* PagesAPI(settings)
NewPagesAPI ==
    /\ replace_call.made
    /\ replace_call' = NoReplaceCall
    /\ UNCHANGED << numbered_list_counters, last_block_type, depth, rendered,
                    siblings, rich_text_call, blocks_call >>
    /\ UNCHANGED service_vars

\* find_replace(page_id, find_text, replace_text, ignore_case), the first
\* call of this PagesAPI
FindReplace(all_blocks, find_text, replace_text, ignore_case) ==
    /\ ~replace_call.made
    /\ replace_call' = find_replace(all_blocks, find_text, replace_text, ignore_case)
    /\ UNCHANGED << numbered_list_counters, last_block_type, depth, rendered,
                    siblings, rich_text_call, blocks_call >>
    /\ UNCHANGED service_vars

NextReplace ==
    \/ NewPagesAPI
    \/ /\ ~replace_call.made
       /\ \E all_blocks \in Pages, find_text \in FindTexts,
             replace_text \in ReplaceTexts, ignore_case \in BOOLEAN :
             FindReplace(all_blocks, find_text, replace_text, ignore_case)

SpecReplace == InitRender /\ [][NextReplace]_vars

(* ============================== claims ================================ *)

\* The error kinds of the taxonomy that are retried, and those that are not.
RetryableKinds == {"RateLimitError", "ServerError", "NetworkError"}
NonRetryableKinds == TypedKinds \ RetryableKinds

\* The disk store holds an entry for (endpoint, params) that has not
\* expired, and the cache is not disabled (a disabled cache reports every
\* key absent).
Holds(endpoint, params) ==
    /\ CacheEnabled
    /\ store[make_key(endpoint, params)].present
    /\ store[make_key(endpoint, params)].ttl > 0

\* The request has ended (returned or raised) and no other has begun.
Ended == pc = "idle" /\ outcome.kind # "none"

\* C1: a GET request with should_cache true, made while the cache holds an
\* unexpired entry for (endpoint, params), returns that entry's value in
\* the same step: no HTTP call is made and the limiter (tokens and the
\* time of the last refill) is as it was before the call.
C1_CacheHitCostsNothing ==
    [][ \A e \in Endpoints, p \in Params, u \in CacheOverrides :
          ( /\ Request("GET", e, p, u)
            /\ IF u.is_none THEN settings.use_cache ELSE u.value
            /\ Holds(e, p) )
          => /\ outcome' = Returned(Loads(store[make_key(e, p)].text), TRUE)
             /\ pc' = "idle"
             /\ http_calls' = 0
             /\ tokens' = tokens
             /\ since_refill' = since_refill ]_vars

\* A GET was served from the cache after earlier requests had taken tokens.
C1_Witness ==
    /\ Ended
    /\ call.method = "GET"
    /\ outcome.kind = "return"
    /\ outcome.from_cache
    /\ http_calls = 0
    /\ tokens < max_burst

\* C2: an attempt that ends with an error of a kind other than RateLimit,
\* Server and Network ends the request at once, whatever max_retries is:
\* the request raises that very error and the failed attempt's HTTP call
\* is the last one it made.
C2_NonRetryableRaisedAtOnce ==
    attempt_exc.kind \in NonRetryableKinds
    => /\ pc = "idle"
       /\ outcome = Raised(attempt_exc)
       /\ http_calls = Len(history)
       /\ history[Len(history)] = "fatal"

\* A 400 on the first attempt of a client with retries to spare.
C2_Witness ==
    /\ Ended
    /\ attempt_exc.kind = "ValidationError"
    /\ settings.max_retries = MaxRetries
    /\ http_calls = 1

\* C3: when the first k-1 attempts of a request each fail with a kind that
\* is retried and the k-th returns, with k <= max_retries, the request
\* returns the k-th response's payload after exactly k HTTP calls; and the
\* request does not give up before its max_retries-th attempt while every
\* attempt so far failed with a kind that is retried.
C3_RetryThenSuccess ==
    /\ \A k \in 1..settings.max_retries :
         ( /\ Ended
           /\ history = [i \in 1..k |-> IF i < k THEN "retryable" ELSE "ok"] )
         => /\ outcome = Returned(response.body, FALSE)
            /\ response.status_code < 400
            /\ http_calls = k
    /\ ( /\ Ended
         /\ history # << >>
         /\ \A i \in 1..Len(history) : history[i] = "retryable" )
       => Len(history) >= settings.max_retries

\* Two failed attempts, then a 200 whose payload is returned.
C3_Witness ==
    /\ Ended
    /\ settings.max_retries = 3
    /\ history = << "retryable", "retryable", "ok" >>
    /\ response.status_code = 200
    /\ outcome = Returned(response.body, FALSE)
    /\ http_calls = 3

\* The error _make_request raises for the response of a failed attempt, for
\* the responses that give an error of a retried kind.
ErrorOfResponse(resp) ==
    IF resp.transport # None
    THEN Exc("NetworkError", resp.transport, Absent, AbsentInt)
    ELSE IF resp.status_code = 429
    THEN RateLimitError("Rate limit exceeded",
                        IF resp.retry_after = Absent THEN 1
                        ELSE DecimalStrings[resp.retry_after], 0)
    ELSE Exc("ServerError",
             IF resp.body.shape = "text" THEN resp.body.raw
             ELSE IF resp.body.message = Absent THEN "Unknown error"
             ELSE resp.body.message,
             IF resp.body.code = Absent \/ resp.body.shape = "text" THEN "unknown"
             ELSE resp.body.code,
             resp.status_code)

\* C4: when all max_retries attempts fail with a kind that is retried, the
\* request raises the error of the last attempt, kind, message and details
\* (the one made from the last response received): no wrapper, no error of
\* an earlier attempt.
C4_LastErrorSurfaced ==
    ( /\ Ended
      /\ Len(history) = settings.max_retries
      /\ \A i \in 1..Len(history) : history[i] = "retryable" )
    => /\ outcome.kind = "raise"
       /\ outcome.exc.kind \in RetryableKinds
       /\ outcome.exc = ErrorOfResponse(response)
       /\ http_calls = settings.max_retries

\* Three attempts failed; the 503 of the last one is what the caller gets.
C4_Witness ==
    /\ Ended
    /\ settings.max_retries = 3
    /\ history = << "retryable", "retryable", "retryable" >>
    /\ response.status_code = 503
    /\ outcome.kind = "raise"
    /\ outcome.exc.kind = "ServerError"
    /\ outcome.exc.status_code = 503

\* Entry k of the store is written in this step: it is new, or its text or
\* the time it has left differ from what the passing of time gives.
Written(k) ==
    /\ store'[k].present
    /\ \/ ~store[k].present
       \/ store'[k].text # store[k].text
       \/ store'[k].ttl > store[k].ttl

\* The step belongs to the request whose arguments are c: it begins it or
\* it is one of its later steps.
StepOf(c) == call' = c /\ (pc # "idle" \/ pc' # "idle" \/ outcome' # outcome \/ call # c)

\* C5: for a GET, a use_cache that is given decides alone whether the
\* cache is used, whatever settings.use_cache is.  With use_cache=True the
\* response of a successful request is stored under the request's key, and
\* a request made while the store holds an unexpired entry for its key is
\* served from it with no HTTP call; with use_cache=False no step of the
\* request writes an entry and the request is not served from the cache.
C5_OverrideAloneDecides ==
    [][ \A e \in Endpoints, p \in Params :
          /\ ( /\ StepOf([method |-> "GET", endpoint |-> e, params |-> p,
                          use_cache |-> Given(TRUE)])
               /\ pc = "http"
               /\ outcome'.kind = "return" )
             => /\ store'[make_key(e, p)].present
                /\ store'[make_key(e, p)].ttl > 0
                /\ store'[make_key(e, p)].text = Dumps(outcome'.value)
          /\ ( /\ StepOf([method |-> "GET", endpoint |-> e, params |-> p,
                          use_cache |-> Given(TRUE)])
               /\ pc = "idle"
               /\ store[make_key(e, p)].present
               /\ store[make_key(e, p)].ttl > 0 )
             => /\ outcome'.kind = "return"
                /\ outcome'.from_cache
                /\ http_calls' = 0
          /\ StepOf([method |-> "GET", endpoint |-> e, params |-> p,
                     use_cache |-> Given(FALSE)])
             => /\ \A k \in Keys : ~Written(k)
                /\ ~outcome'.from_cache ]_vars

\* C6: every entry of the store is written by the step in which a GET
\* request with should_cache true returns the response of a successful
\* attempt, under that request's key and with that response as its value;
\* no step of a POST, PATCH or DELETE, no step of a request that ends in an
\* error and no step of a request with should_cache false writes an entry.
\* The store starts empty, so every entry there is has been written so.
C6_OnlySuccessfulCachedGetsWrite ==
    [][ \A k \in Keys :
          Written(k)
          => /\ pc = "http"
             /\ call.method = "GET"
             /\ IF call.use_cache.is_none THEN settings.use_cache
                ELSE call.use_cache.value
             /\ k = make_key(call.endpoint, call.params)
             /\ response'.status_code < 400
             /\ outcome' = Returned(response'.body, FALSE)
             /\ store'[k].text = Dumps(response'.body) ]_vars

\* A GET has just returned a response and left it in the store, fresh.
C6_Witness ==
    /\ Ended
    /\ call.method = "GET"
    /\ outcome.kind = "return"
    /\ ~outcome.from_cache
    /\ store[make_key(call.endpoint, call.params)].present
    /\ store[make_key(call.endpoint, call.params)].ttl = SecondsToTicks(cache_ttl)
    /\ store[make_key(call.endpoint, call.params)].text = Dumps(outcome.value)

\* C7: every request that has ended has returned the parsed response or
\* raised one of the typed errors (NotionCLIError and its subclasses);
\* nothing else gets out of request, also not for a 429 whose Retry-After
\* is no integer, nor for a 2xx response whose body is not JSON.
C7_OnlyTypedErrorsEscape ==
    Ended
    => \/ outcome.kind = "return"
       \/ outcome.kind = "raise" /\ outcome.exc.kind \in TypedKinds

\* C8: for every response with a status >= 400 that reaches the error
\* classification (a 429 is handled before it), whatever its body is, a
\* JSON object, JSON that is no object, or text that is not JSON, the
\* attempt ends with a typed error; and the error made from a body that
\* cannot be parsed has the raw response text as its message.
C8_ClassificationNeverThrows ==
    ( /\ response.transport = None
      /\ response.status_code >= 400
      /\ response.status_code # 429
      /\ attempt_exc # NoExc )
    => /\ attempt_exc.kind \in TypedKinds
       /\ response.body.shape = "text" => attempt_exc.message = response.body.raw

\* The kind documented for each status.
DocumentedKind(status_code) ==
    CASE status_code = 400 -> "ValidationError"
      [] status_code = 401 -> "AuthenticationError"
      [] status_code = 403 -> "PermissionError"
      [] status_code = 404 -> "NotFoundError"
      [] status_code = 409 -> "ConflictError"
      [] status_code = 429 -> "RateLimitError"
      [] status_code >= 500 -> "ServerError"
      [] OTHER -> "NotionCLIError"

\* C9: exception_from_response gives, for a dict body, the kind documented
\* for the status: 400 Validation, 401 Authentication, 403 PermissionDenied,
\* 404 NotFound, 409 Conflict, 429 RateLimit, 500 and above Server, and for
\* any other status the base error (Unknown) with the status in its
\* details; and the typed error with which an attempt of request ends on a
\* response of that status is of the same kind, with the same status in
\* its details when the kind is Unknown.  (While a 429 is being waited out
\* its attempt has not ended yet.)
C9_StatusTable ==
    /\ \A st \in Statuses : \A b \in {Page, ErrorBody} :
         /\ exception_from_response(st, b).kind = DocumentedKind(st)
         /\ DocumentedKind(st) = "NotionCLIError"
            => exception_from_response(st, b).status_code = st
    /\ ( /\ response.transport = None
         /\ response.status_code >= 400
         /\ pc # "wait_for_retry"
         /\ attempt_exc.kind \in TypedKinds )
       => /\ attempt_exc.kind = DocumentedKind(response.status_code)
          /\ attempt_exc.kind = exception_from_response(response.status_code, ErrorBody).kind
          /\ attempt_exc.kind = "NotionCLIError"
             => attempt_exc.status_code = response.status_code

\* A 418 has come out of request as the base error, its status in the details.
C9_Witness ==
    /\ Ended
    /\ response.status_code = 418
    /\ outcome.kind = "raise"
    /\ outcome.exc.kind = "NotionCLIError"
    /\ outcome.exc.status_code = 418

\* C10: a RateLimit error that request raises after k attempts carries in
\* its details the retry-after of the last 429 response (1 when the header
\* is not sent) and the number k of attempts made.
C10_RateLimitDetails ==
    ( /\ Ended
      /\ outcome.kind = "raise"
      /\ outcome.exc.kind = "RateLimitError" )
    => /\ response.status_code = 429
       /\ outcome.exc.retry_after =
            IF response.retry_after = Absent THEN 1
            ELSE DecimalStrings[response.retry_after]
       /\ outcome.exc.attempts = http_calls

\* The seconds a 429 response asks the client to wait: its Retry-After,
\* 1 when the header is not sent.
RetryAfterSeconds(resp) ==
    IF resp.retry_after = Absent THEN 1 ELSE DecimalStrings[resp.retry_after]

Asleep(t) == threads[t].pc = "sleep"

\* The step is the return of the thread's call of op.
Returns(t, op) ==
    /\ threads[t].op = op
    /\ threads[t].pc # "idle"
    /\ threads'[t].pc = "idle"

\* C12: in every reachable state of the RateLimiter, with acquire, reset
\* and wait_for_retry called by several threads in any interleaving, the
\* tokens are at least 0 and at most max_burst.
C12_TokensWithinBounds ==
    /\ tokens >= 0
    /\ tokens <= max_burst

\* The bucket has been reset and drawn from again while one thread sleeps
\* in wait_for_retry and another has been granted a token.
C12_Witness ==
    /\ epoch.by = "reset"
    /\ epoch.granted >= 1
    /\ tokens < max_burst
    /\ \E t1, t2 \in Threads :
          /\ threads[t1].op = "wait_for_retry" /\ Asleep(t1)
          /\ threads[t2].op = "acquire" /\ threads[t2].pc = "idle" /\ threads[t2].ok

\* C13: on a fresh limiter no acquire sleeps or fails before max_burst
\* tokens have been granted (the first max_burst calls return True
\* without sleeping), and the grant after them does not come before one
\* tick, 1 / requests_per_second, has passed; more generally no more than
\* max_burst + n tokens are granted within the first n ticks.
C13_BurstThenWait ==
    epoch.by = "init"
    => /\ epoch.starved => epoch.granted >= max_burst
       /\ epoch.clock < MaxClock => epoch.granted <= max_burst + epoch.clock

\* The fresh limiter has granted max_burst + 1 tokens, the last one to a
\* call that had to sleep, one tick after it was made.
C13_Witness ==
    /\ epoch.by = "init"
    /\ epoch.granted = max_burst + 1
    /\ epoch.clock = 1
    /\ \E t \in Threads :
          /\ threads[t].op = "acquire" /\ threads[t].pc = "idle"
          /\ threads[t].ok /\ threads[t].slept

\* C14: acquire(timeout=t) that finds no token when nothing is left of t
\* returns False; it never sleeps beyond t; a call that returns False has
\* used up its timeout, lets go of the lock and takes no token: no step
\* of it lowers the tokens, the only step that does is the return of an
\* acquire with True.
C14_TimeoutReturnsFalse ==
    /\ [](\A t \in Threads :
            ( /\ Asleep(t)
              /\ threads[t].op = "acquire"
              /\ threads[t].timeout # NoneInt )
            => threads[t].elapsed + threads[t].sleep <= threads[t].timeout)
    /\ [][ \A t \in Threads :
            /\ ( /\ threads[t].pc = "locked"
                 /\ threads[t].op = "acquire"
                 /\ threads[t].timeout # NoneInt
                 /\ tokens + since_refill < 1
                 /\ threads[t].elapsed >= threads[t].timeout
                 /\ threads'[t] # threads[t] )
               => /\ threads'[t].pc = "idle"
                  /\ ~threads'[t].ok
                  /\ tokens' >= tokens
            /\ ( Returns(t, "acquire") /\ ~threads'[t].ok )
               => /\ tokens' >= tokens
                  /\ lock' = None
                  /\ threads[t].timeout # NoneInt
                  /\ threads[t].elapsed >= threads[t].timeout
            /\ ( Returns(t, "acquire") /\ threads'[t].ok )
               => \/ threads[t].timeout = NoneInt
                  \/ threads[t].elapsed <= threads[t].timeout
            /\ tokens' < tokens
               => \E u \in Threads : Returns(u, "acquire") /\ threads'[u].ok ]_vars

\* An acquire with a timeout has slept and then returned False.
C14_Witness ==
    \E t \in Threads :
        /\ threads[t].op = "acquire"
        /\ threads[t].pc = "idle"
        /\ ~threads[t].ok
        /\ threads[t].slept

\* C15: no thread holds the lock of the limiter while it sleeps, in
\* acquire or in wait_for_retry, or while it waits for the lock, and the
\* lock is free of a thread whose call (acquire with True or False, reset,
\* wait_for_retry) has returned: the lock is only held by a thread that is
\* at its refill and check, or at its fill.
C15_NoLockWhileSleeping ==
    /\ \A t \in Threads : threads[t].pc \in {"sleep", "lock", "idle"} => lock # t
    /\ lock # None => lock \in Threads /\ threads[lock].pc = "locked"

\* While one thread sleeps, another holds the lock in acquire and finds a
\* token it is about to take.
C15_Witness ==
    \E t1, t2 \in Threads :
        /\ Asleep(t1)
        /\ threads[t1].sleep > 0
        /\ lock = t2
        /\ threads[t2].op = "acquire"
        /\ threads[t2].pc = "locked"
        /\ HasToken

\* C16: when reset() returns, and when wait_for_retry(s) returns, for any
\* s >= 0, the tokens are max_burst and last_refill is now, whatever the
\* bucket held before; so no acquire sleeps or fails before max_burst
\* tokens have been granted since.
C16_FilledAfterReset ==
    /\ [](epoch.by \in {"reset", "wait_for_retry"}
           => (epoch.starved => epoch.granted >= max_burst))
    /\ [][ \A t \in Threads :
            ( Returns(t, "reset") \/ Returns(t, "wait_for_retry") )
            => /\ tokens' = max_burst
               /\ since_refill' = 0
               /\ lock' = None ]_vars

\* wait_for_retry found the bucket empty, and max_burst tokens have been
\* granted since it returned, with no time gone by and no call starved.
C16_Witness ==
    /\ epoch.by = "wait_for_retry"
    /\ epoch.drained
    /\ epoch.granted = max_burst
    /\ epoch.clock = 0
    /\ ~epoch.starved

(* ----------------------- claims about the Cache ----------------------- *)

\* The params as a map, None standing for the empty one.
AsMap(params) == IF params.is_none THEN {} ELSE params.items

\* Under (endpoint, params) a value was set whose ttl has not elapsed.
LastSetLives(endpoint, params) ==
    /\ set_log[LogKey(endpoint, params)].set
    /\ set_log[LogKey(endpoint, params)].left > 0

\* C17: on an enabled cache, a get(e, p) made after set(e, p, v) and before
\* the ttl of that set (its own, or the default one) has elapsed returns v,
\* whatever was set, got or let pass in between under other keys; and a get
\* for a key under which nothing was set returns None.
C17_GetAfterSet ==
    ( /\ CacheEnabled
      /\ cache_call.op = "get" )
    => /\ LastSetLives(cache_call.endpoint, cache_call.params)
          => cache_call.result =
               set_log[LogKey(cache_call.endpoint, cache_call.params)].value
       /\ ~set_log[LogKey(cache_call.endpoint, cache_call.params)].set
          => cache_call.result = NoBody

\* A get has returned the value set before it, on a cache that holds an
\* entry under another key too.
C17_Witness ==
    /\ CacheEnabled
    /\ cache_call.op = "get"
    /\ LastSetLives(cache_call.endpoint, cache_call.params)
    /\ cache_call.result = ErrorBody
    /\ cache_call.result =
         set_log[LogKey(cache_call.endpoint, cache_call.params)].value
    /\ \E p \in AllParams :
          /\ AsMap(p) # AsMap(cache_call.params)
          /\ LastSetLives(cache_call.endpoint, p)

\* C18: entries of one endpoint under different params maps are
\* independent: set(e, p1, v1) leaves what get(e, p2) returns as it was for
\* every map p2 other than p1, and after sets under two different maps
\* each get returns the value set under its own map.
C18_ParamsIndependent ==
    /\ [](CacheEnabled
          => \A e \in Endpoints, p1, p2 \in AllParams :
               ( /\ AsMap(p1) # AsMap(p2)
                 /\ LastSetLives(e, p1)
                 /\ LastSetLives(e, p2) )
               => /\ CacheGet(e, p1) = set_log[LogKey(e, p1)].value
                  /\ CacheGet(e, p2) = set_log[LogKey(e, p2)].value)
    /\ [][ \A e \in Endpoints, p1 \in AllParams :
             ( /\ cache_call'.op = "set"
               /\ cache_call'.endpoint = e
               /\ cache_call'.params = p1
               /\ CacheApiSet(e, p1, cache_call'.value, cache_call'.ttl) )
             => \A p2 \in AllParams :
                  AsMap(p2) # AsMap(p1) => CacheGet(e, p2)' = CacheGet(e, p2) ]_vars

\* Two params maps that differ in one value hold different values.
C18_Witness ==
    /\ CacheEnabled
    /\ cache_call.op = "set"
    /\ \E e \in Endpoints :
          /\ CacheGet(e, Dict({<<"page_size", "10">>})) = Page
          /\ CacheGet(e, Dict({<<"page_size", "100">>})) = ErrorBody

\* C19: on a cache that is not enabled, after any calls of set, get and
\* invalidate, every get has returned None, the store is as it was (empty),
\* invalidate has returned 0, and the disk cache has never been opened, so
\* its directory has not been made.
C19_DisabledCacheIsInert ==
    ~CacheEnabled
    => /\ ~cache_opened
       /\ \A k \in Keys : ~store[k].present
       /\ cache_call.op = "get" => cache_call.result = NoBody
       /\ cache_call.op = "invalidate" => cache_call.count = 0
       /\ \A e \in Endpoints, p \in AllParams : CacheGet(e, p) = NoBody

\* A get on a disabled cache, for a key set before with a ttl that has not
\* elapsed.
C19_Witness ==
    /\ ~CacheEnabled
    /\ cache_call.op = "get"
    /\ LastSetLives(cache_call.endpoint, cache_call.params)
    /\ cache_call.result = NoBody

\* C20: on an enabled cache whose store holds N entries (expired ones that
\* the disk cache has not dropped yet are among them), invalidate, with or
\* without a pattern, returns N and leaves no entry: every get returns None
\* until something is set again.
C20_InvalidateClearsAll ==
    /\ [](CacheEnabled
          => \A e \in Endpoints, p \in AllParams :
               ~set_log[LogKey(e, p)].set => CacheGet(e, p) = NoBody)
    /\ [][ \A pattern \in Patterns :
             ( CacheApiInvalidate(pattern) /\ CacheEnabled )
             => /\ cache_call'.count = Cardinality({ k \in Keys : store[k].present })
                /\ \A k \in Keys : ~store'[k].present
                /\ \A e \in Endpoints, p \in AllParams : CacheGet(e, p)' = NoBody ]_vars

\* invalidate with a pattern has removed the three entries there were.
C20_Witness ==
    /\ CacheEnabled
    /\ cache_call.op = "invalidate"
    /\ cache_call.pattern # None
    /\ cache_call.count = Cardinality(Keys)
    /\ \A k \in Keys : ~store[k].present

\* C21: an entry written with ttl t is absent for every get made once t
\* has elapsed since the write: a GET that may use the cache, made when
\* the time of the last set under its key has run out, is not served from
\* the cache but starts a network attempt; and when an attempt of such a
\* GET returns, at least one HTTP call was made and the entry holds the
\* new response under the default ttl.
C21_ExpiredEntryIsFetchedAgain ==
    /\ [][ ( /\ pc = "idle"
             /\ call'.method = "GET"
             /\ IF call'.use_cache.is_none THEN settings.use_cache
                                           ELSE call'.use_cache.value
             /\ CacheEnabled
             /\ set_log[LogKey(call'.endpoint, call'.params)].set
             /\ set_log[LogKey(call'.endpoint, call'.params)].left = 0
             /\ Request("GET", call'.endpoint, call'.params, call'.use_cache) )
           => /\ pc' = "acquire"
              /\ outcome' = NoOutcome
              /\ http_calls' = 0 ]_vars
    /\ [][ ( /\ pc = "http"
             /\ pc' = "idle"
             /\ outcome'.kind = "return"
             /\ call.method = "GET"
             /\ IF call.use_cache.is_none THEN settings.use_cache ELSE call.use_cache.value
             /\ CacheEnabled )
           => /\ http_calls' >= 1
              /\ ~outcome'.from_cache
              /\ store'[make_key(call.endpoint, call.params)] =
                    [present |-> TRUE, text |-> Dumps(outcome'.value),
                     ttl |-> SecondsToTicks(cache_ttl)] ]_vars

\* A GET is fetching again what the store still holds but whose ttl has
\* run out since it was set.
C21_Witness ==
    /\ pc = "http"
    /\ call.method = "GET"
    /\ CacheEnabled
    /\ LET k == make_key(call.endpoint, call.params)
       IN  /\ store[k].present
           /\ set_log[LogKey(call.endpoint, call.params)].set
           /\ set_log[LogKey(call.endpoint, call.params)].left = 0

\* The annotations from the outermost to the innermost, and a text inside
\* the wrappers of a set of annotations nested in that order.
OuterToInner == << "underline", "strikethrough", "italic", "bold", "code" >>
Nested(text, annotations) ==
    Concat(Flat([i \in 1..5 |-> IF OuterToInner[i] \in annotations
                                THEN Opening[OuterToInner[i]] ELSE << >>]),
           text,
           Flat([i \in 1..5 |-> IF OuterToInner[6 - i] \in annotations
                                THEN Closing[OuterToInner[6 - i]] ELSE << >>]))

\* The content of a text or mention run before any annotation: the text,
\* inside its link if it has one; @name, [Page](id) or the start date.
ContentOf(segment) ==
    IF segment.type = "text"
    THEN IF segment.link.is_none
         THEN segment.content
         ELSE Concat(<< "[" >> \o segment.content, << "]", "(" >>, segment.link.url \o << ")" >>)
    ELSE IF segment.mention = "user" THEN << "@" >> \o segment.content
    ELSE IF segment.mention = "page" THEN Concat(<< "[", "P", "a", "g", "e", "]", "(" >>, segment.content, << ")" >>)
    ELSE segment.content

\* text as the text of a link to url
LinkTo(text, url) == Concat(<< "[" >> \o text, << "]", "(" >>, url \o << ")" >>)

\* C26: a text or mention run with content has its wrappers nested in the
\* order code (innermost), bold, italic, strikethrough, underline
\* (outermost), around the content and inside the link an href makes:
\* bold and italic on x give ***x***, code and bold on x give **`x`** (the
\* grave accents around x); an equation renders as $expression$ whatever
\* its annotations; a run without content gets no wrapper of an annotation.
C26_AnnotationsNestInOrder ==
    rich_text_call.called =>
        LET s == rich_text_call.segment
            out == rich_text_call.out
        IN  /\ s.type = "equation" => out = Concat(<< "$" >>, s.content, << "$" >>)
            /\ s.type \in {"text", "mention"} /\ ContentOf(s) # << >>
                 => out \in { Nested(ContentOf(s), s.annotations),
                              LinkTo(Nested(ContentOf(s), s.annotations), s.href.url) }
            /\ s.type \in {"text", "mention"} /\ ContentOf(s) = << >>
                 => out \in { << >>, LinkTo(<< >>, s.href.url) }
            /\ s = Segment("text", None, << "x" >>, NoUrl, {"bold", "italic"}, NoUrl)
                 => out = << "*", "*", "*", "x", "*", "*", "*" >>
            /\ s = Segment("text", None, << "x" >>, NoUrl, {"code", "bold"}, NoUrl)
                 => out = << "*", "*", Backtick, "x", Backtick, "*", "*" >>

\* A text run x that is code, bold and underlined was rendered.
C26_Witness ==
    /\ rich_text_call.called
    /\ rich_text_call.segment =
          Segment("text", None, << "x" >>, NoUrl, {"code", "bold", "underline"}, NoUrl)
    /\ rich_text_call.out = << "<", "u", ">", "*", "*", Backtick, "x", Backtick, "*", "*", "<", "/", "u", ">" >>

\* How many times part occurs in text.
Occurrences(part, text) ==
    Cardinality({ i \in 1..(Len(text) - Len(part) + 1) :
                    SubSeq(text, i, i + Len(part) - 1) = part })

\* C27: the rendering of a run holds at most one link wrapper, whatever
\* its annotations: a run with a text.link is not wrapped again by its
\* href, and href wraps the annotated content only of a run that no
\* text.link has wrapped.
C27_AtMostOneLinkWrapper ==
    rich_text_call.called =>
        LET s == rich_text_call.segment
            out == rich_text_call.out
        IN  /\ Occurrences(<< "]", "(" >>, out) <= 1
            /\ s.type = "text" /\ ~s.link.is_none
                 => out = Nested(ContentOf(s), s.annotations)

\* C22: in a run of consecutive sibling numbered_list_item blocks at one
\* depth whose numbering starts afresh (the first of the run comes first
\* for the renderer or after a block of another type, and renders as 1.),
\* the i-th item renders with the ordinal i, whatever children the earlier
\* items of the run carry.
C22_RunIsNumberedInOrder ==
    \A j \in 0..Len(siblings), i \in 1..Len(siblings) :
        ( /\ j < i
          /\ \A k \in (j + 1)..i : siblings[k].numbered
          /\ j = 0 \/ ~siblings[j].numbered
          /\ siblings[j + 1].ordinal = 1 )
        => siblings[i].ordinal = i - j

\* C23: a numbered_list_item that comes after a sibling of another type,
\* itself after a numbered_list_item, renders with the ordinal 1.
C23_OtherBlockResetsNumbering ==
    \A i \in 3..Len(siblings) :
        ( /\ siblings[i - 2].numbered
          /\ ~siblings[i - 1].numbered
          /\ siblings[i].numbered )
        => siblings[i].ordinal = 1

RECURSIVE TextsUnder(_)
\* The letters of the texts of the descendants of a block.
TextsUnder(block) ==
    UNION { { block.children[i].rich_text[n].content :
                n \in 1..Len(block.children[i].rich_text) }
            \cup TextsUnder(block.children[i]) : i \in 1..Len(block.children) }

C25_TableRowsHaveColumnCount ==
    ( /\ rendered.called
      /\ rendered.block.type = "table"
      /\ rendered.block.children # << >>
      /\ Len(rendered.block.children[1].cells) >= 1 )
    => LET c == Len(rendered.block.children[1].cells)
           lines == Lines(rendered.out)
           rows == Len(rendered.block.children)
       IN  /\ Len(lines) = rows + 2
           /\ lines[rows + 2] = << >>
           /\ lines[2] = Indent(rendered.depth) \o << "|" >>
                           \o Join(<< "|" >>, [j \in 1..c |-> << "-", "-", "-" >>]) \o << "|" >>
           /\ \A i \in (1..(rows + 1)) \ {2} :
                /\ Occurrences(<< "|" >>, lines[i]) = c + 1
                /\ Occurrences(<< "-", "-", "-" >>, lines[i]) = 0

\* C28: a block whose type is not the tag of a block the renderer knows is
\* rendered without an exception, as the placeholder with its type at the
\* block's indentation, also when the type is the name of another method
\* of the renderer (text_segment, mention).
C28_UnknownTypeGivesPlaceholder ==
    ( /\ rendered.called
      /\ rendered.block.type \notin BlockHandlers )
    => /\ rendered.raised = None
       /\ StartsWith(rendered.out,
                     Indent(rendered.depth) \o << "[", "u", "n", "s", "u", "p", "p", "o", "r", "t", "e", "d", ":", " " >>
                       \o TypeName(rendered.block.type) \o << "]", "\n" >>)

\* C30: every HTTP attempt of a request, the first and the retries, comes
\* after one acquire of the limiter made for it: the HTTP calls of the
\* request are never more than the tokens it acquired, an attempt that is
\* at its HTTP call has acquired one token more than the calls made, and an
\* attempt that is over (returned, raised, waiting for its retry) has
\* acquired as many as the calls made; the HTTP call, however it ends,
\* gives no token back.
C30_AcquireBeforeEveryHttpCall ==
    /\ [](/\ http_calls <= acquired
          /\ pc = "http" => acquired = http_calls + 1
          /\ pc # "http" => acquired = http_calls)
    /\ [][http_calls' = http_calls + 1 =>
            /\ pc = "http"
            /\ tokens' = tokens
            /\ acquired' = acquired]_vars

\* A second attempt is at its HTTP call after a first that failed: two
\* tokens were acquired for the one call made.
C30_Witness ==
    /\ pc = "http"
    /\ attempt_number = 2
    /\ history = << "retryable" >>
    /\ http_calls = 1
    /\ acquired = 2

\* C29 as stated: a request makes at least one and at most max_retries HTTP
\* calls, whatever way it ends, and it ends.
C29_OneToMaxRetriesAttempts ==
    /\ [](http_calls <= settings.max_retries)
    /\ [](Ended => 1 <= http_calls)
    /\ (pc # "idle" ~> Ended)

\* C29, amended: a request never makes more than max_retries HTTP calls; one
\* that is answered from the cache makes none, and one that is not makes at
\* least one; and, every acquire, HTTP call and sleep returning, a request
\* that has started its attempts returns or raises.
C29_AttemptsBoundedAndRequestEnds ==
    /\ [](/\ http_calls <= settings.max_retries
          /\ attempt_number <= settings.max_retries)
    /\ [](Ended => IF outcome.from_cache
                   THEN http_calls = 0
                   ELSE 1 <= http_calls)
    /\ (pc # "idle" ~> Ended)

\* A request returned at its last attempt, the earlier ones having failed.
C29_Witness ==
    /\ Ended
    /\ outcome.kind = "return"
    /\ ~outcome.from_cache
    /\ settings.max_retries = MaxRetries
    /\ http_calls = MaxRetries
    /\ history[MaxRetries] = "ok"

\* The ordinals that the lines of out begin with at depth d, in the order
\* of the lines: those of the numbered items rendered at that depth.
OrdinalsAt(out, d) ==
    LET lines == Lines(out)
        at == { k \in 1..Len(lines) : OrdinalOf(lines[k], d) # 0 }
        nth(n) == CHOOSE k \in at : Cardinality({ f \in at : f < k }) = n - 1
    IN  [n \in 1..Cardinality(at) |-> OrdinalOf(lines[nth(n)], d)]

\* C31: a numbered_list_item rendered at depth d leaves no counter of a
\* depth greater than d, and its m numbered children are numbered 1..m on
\* their own, whatever was rendered before it: the first of them renders
\* as 1 also when the item before it had numbered children.
C31_ChildrenNumberedOnTheirOwn ==
    /\ \A item \in render_numbered_list_item(
                      [counters |-> numbered_list_counters, last |-> last_block_type],
                      Numbered("j", << >>), depth).counters :
          item[1] <= depth
    /\ ( /\ rendered.called
         /\ rendered.block.type = "numbered_list_item"
         /\ rendered.raised = None )
       => LET children == rendered.block.children
              m == Cardinality({ i \in 1..Len(children) :
                                   children[i].type = "numbered_list_item" })
          IN  OrdinalsAt(rendered.out, rendered.depth + 1) = [n \in 1..m |-> n]

\* C32: a callout whose rendered text has n lines is rendered, without an
\* exception, as n lines that each start with the indentation and "> ", as
\* the lines of a quote do; its emoji, or the url of its external icon,
\* when it has one, comes on the first line before the text, and the lines
\* hold the lines of the text in order.
C32_CalloutLinesQuoted ==
    ( /\ rendered.called
      /\ rendered.block.type = "callout" )
    => LET text == Lines(render_rich_text(rendered.block.rich_text))
           icon == IconOf(rendered.block)
           emoji == IF icon.type = "emoji" THEN icon.emoji
                    ELSE IF icon.type = "external" THEN icon.url
                    ELSE << >>
           prefix == Indent(rendered.depth) \o << ">", " " >>
           lines == Lines(rendered.out)
       IN  /\ rendered.raised = None
           /\ Len(lines) = Len(text) + 1
           /\ lines[Len(lines)] = << >>
           /\ \A k \in 1..Len(text) :
                /\ StartsWith(lines[k], prefix)
                /\ EndsWith(lines[k], text[k])
           /\ emoji # << >> => StartsWith(lines[1], prefix \o emoji \o << " " >>)

\* C33: under fair scheduling every call of acquire() without a timeout
\* returns True in the end, also while the other thread of the limiter
\* goes on calling acquire().
C33_NoAcquireStarves ==
    \A t \in Threads :
        (threads[t].op = "acquire" /\ threads[t].pc # "idle")
            ~> (threads[t].op = "acquire" /\ threads[t].pc = "idle" /\ threads[t].ok)

\* The tokens that a refill would find in the bucket now.
Level == Min(max_burst, tokens + since_refill)

\* C34: in every interleaving of the calls of two threads, an acquire that
\* returns True leaves one token less than its refill found, and no other
\* step lowers the tokens; a step in which neither reset nor wait_for_retry
\* fills the bucket grants at most what the level of the bucket loses or
\* the tick that passes brings, so that from any state on the grants of a
\* window of T ticks without a fill are at most the level at its start,
\* max_burst at most, plus T; counted from the last fill, no more than
\* max_burst + n tokens are granted within n ticks.
C34_NoTokenGrantedTwice ==
    /\ [](epoch.clock < MaxClock => epoch.granted <= max_burst + epoch.clock)
    /\ [][ LET grant == \E t \in Threads : Returns(t, "acquire") /\ threads'[t].ok
               fill == \E t \in Threads :
                          Returns(t, "reset") \/ Returns(t, "wait_for_retry")
               granted == IF grant THEN 1 ELSE 0
               passed == IF since_refill' > since_refill THEN 1 ELSE 0
           IN  /\ grant => tokens' = Level - 1 /\ since_refill' = 0
               /\ tokens' < tokens => grant
               /\ ~fill => granted + Level' <= Level + passed ]_vars

\* The bucket was emptied and a tick passed: one thread was given the
\* token of that tick and the other, at its check under the lock, finds
\* none.
C34_Witness ==
    \E t1, t2 \in Threads :
        /\ threads[t1].op = "acquire" /\ threads[t1].pc = "idle" /\ threads[t1].ok
        /\ threads[t2].op = "acquire" /\ threads[t2].pc = "locked" /\ ~HasToken
        /\ epoch.granted = max_burst + 1
        /\ epoch.clock = 1

\* The methods of the requests that change something at the server.
Mutations == Methods \ {"GET"}

\* C35: a POST, PATCH or DELETE request neither reads, writes nor
\* invalidates the cache: no step of it, from the call to the return or
\* the raise, opens the cache or changes an entry (the entries only grow
\* older while the request sleeps) or what was last set under a key; so a
\* GET that may use the cache, made after a mutation of the same endpoint
\* has returned and while the entry for its (endpoint, params) has time
\* left, returns the value that was set before the mutation, without an
\* HTTP call.
C35_MutationsLeaveTheCache ==
    /\ [][ ( /\ call'.method \in Mutations
             /\ pc # "idle" \/ pc' # "idle" )
           => /\ cache_opened' = cache_opened
              /\ pc = "idle" => store' = store /\ set_log' = set_log
              /\ \A k \in Keys :
                    /\ store'[k].present = store[k].present
                    /\ store'[k].text = store[k].text
                    /\ store'[k].ttl <= store[k].ttl
                    /\ set_log'[k].set = set_log[k].set
                    /\ set_log'[k].value = set_log[k].value ]_vars
    /\ [][ ( /\ Ended
             /\ call.method \in Mutations
             /\ outcome.kind = "return"
             /\ call'.method = "GET"
             /\ call'.endpoint = call.endpoint
             /\ ShouldCache(call')
             /\ Holds(call'.endpoint, call'.params)
             /\ Request("GET", call'.endpoint, call'.params, call'.use_cache) )
           => /\ outcome' = Returned(set_log[LogKey(call'.endpoint, call'.params)].value, TRUE)
              /\ http_calls' = 0
              /\ pc' = "idle" ]_vars

\* A DELETE has returned while an entry of its endpoint, set by a GET
\* before it, still has time left.
C35_Witness ==
    /\ Ended
    /\ call.method = "DELETE"
    /\ outcome.kind = "return"
    /\ http_calls = 1
    /\ \E p \in Params :
          /\ Holds(call.endpoint, p)
          /\ set_log[LogKey(call.endpoint, p)].set
          /\ set_log[LogKey(call.endpoint, p)].left > 0

RECURSIVE OnlyTogglesEmptied(_, _)
\* after is before but for the children of its toggles: the same fields
\* with the same values, the children of a toggle that had some gone, and
\* the children of any other block the same in number and each of them so
\* again.
OnlyTogglesEmptied(before, after) ==
    /\ DOMAIN after = DOMAIN before
    /\ \A f \in DOMAIN before \ {"children"} : after[f] = before[f]
    /\ IF before.type = "toggle" /\ before.children # << >>
       THEN after.children = << >>
       ELSE /\ Len(after.children) = Len(before.children)
            /\ \A i \in 1..Len(before.children) :
                  OnlyTogglesEmptied(before.children[i], after.children[i])

\* C36: a call of render_block that returns leaves the block it was given
\* as it was, but for the toggles rendered in it that had children, whose
\* children are the empty list after it (every block of the trees rendered
\* here is rendered): no field of a block is added, removed or changed
\* otherwise.
C36_OnlyToggleChildrenCleared ==
    ( /\ rendered.called
      /\ rendered.raised = None )
    => OnlyTogglesEmptied(rendered.block, rendered.left)

\* A numbered item was rendered whose child, a toggle, had children: the
\* item has its child still, and the toggle has none.
C36_Witness ==
    /\ rendered.called
    /\ rendered.raised = None
    /\ rendered.block.type = "numbered_list_item"
    /\ Len(rendered.block.children) = 1
    /\ rendered.block.children[1].type = "toggle"
    /\ rendered.block.children[1].children # << >>
    /\ Len(rendered.left.children) = 1
    /\ rendered.left.children[1].children = << >>

\* C37: the numbering lives in the renderer and render_blocks does not
\* reset it when entered.  On a renderer that has rendered nothing the
\* first numbered item of each depth renders as 1; a numbered_list_item
\* that is the first block of a later call of render_blocks, when the last
\* block that the renderer rendered before was a numbered_list_item,
\* renders with the count that the call before left at its depth plus
\* one (1 where it left none).
C37_NumberingOutlivesTheCall ==
    ( /\ blocks_call.calls > 0
      /\ blocks_call.raised = None )
    => LET before == blocks_call.before
           blocks == blocks_call.blocks
           out == blocks_call.out
       IN  /\ before.last = None
                => \A d \in 0..3 :
                      OrdinalsAt(out, d) # << >> => OrdinalsAt(out, d)[1] = 1
           /\ ( /\ blocks # << >>
                /\ blocks[1].type = "numbered_list_item"
                /\ before.last = "numbered_list_item" )
              => OrdinalOf(out, 0) =
                    (IF HasCounter(before.counters, 0)
                     THEN Counter(before.counters, 0) ELSE 0) + 1

\* The second call of render_blocks on a renderer starts with a numbered
\* item and renders it as 3, the first call having ended with its second
\* numbered item.
C37_Witness ==
    /\ blocks_call.calls = 2
    /\ blocks_call.raised = None
    /\ blocks_call.before.last = "numbered_list_item"
    /\ blocks_call.before.counters = { << 0, 2 >> }
    /\ blocks_call.blocks # << >>
    /\ blocks_call.blocks[1].type = "numbered_list_item"
    /\ OrdinalOf(blocks_call.out, 0) = 3

(* ----------------------- claims about find_replace --------------------- *)

RECURSIVE BlocksUnder(_)
\* The blocks of a page: those of the list and all below them.
BlocksUnder(blocks) ==
    IF blocks = << >> THEN {}
    ELSE { Head(blocks) } \cup BlocksUnder(Head(blocks).children)
            \cup BlocksUnder(Tail(blocks))

\* The text of a block as the page showed it before the call.
OriginalText(block) == Flat([i \in 1..Len(block.rich_text) |-> block.rich_text[i].plain_text])

\* text begins with an occurrence of find_text.
BeginsWith(text, find_text, ignore_case) ==
    /\ Len(find_text) <= Len(text)
    /\ LET fold(c) == IF ignore_case /\ c = "J" THEN "j" ELSE c
       IN  [i \in 1..Len(find_text) |-> fold(text[i])]
             = [i \in 1..Len(find_text) |-> fold(find_text[i])]

RECURSIVE CountOf(_, _, _)
\* The number of occurrences of find_text in text, counted from the left
\* without overlap.
CountOf(text, find_text, ignore_case) ==
    IF text = << >> THEN 0
    ELSE IF BeginsWith(text, find_text, ignore_case)
    THEN 1 + CountOf(SubSeq(text, Len(find_text) + 1, Len(text)), find_text, ignore_case)
    ELSE CountOf(Tail(text), find_text, ignore_case)

RECURSIVE WithAllReplaced(_, _, _, _)
\* text with each of these occurrences replaced by replacement, the rest
\* of it kept.
WithAllReplaced(text, find_text, replacement, ignore_case) ==
    IF text = << >> THEN << >>
    ELSE IF BeginsWith(text, find_text, ignore_case)
    THEN replacement \o WithAllReplaced(SubSeq(text, Len(find_text) + 1, Len(text)),
                                        find_text, replacement, ignore_case)
    ELSE << Head(text) >> \o WithAllReplaced(Tail(text), find_text, replacement,
                                             ignore_case)

\* The texts that the call wrote to the block, in order.
WrittenTo(block) ==
    SelectSeq(replace_call.updates, LAMBDA u : u.block_id = block.id)

\* The blocks of the page of the last call whose text has matches.
MatchingBlocks ==
    { block \in BlocksUnder(replace_call.all_blocks) :
        /\ block.type \in RICH_TEXT_BLOCK_TYPES \cup {CODE_BLOCK_TYPE}
        /\ CountOf(OriginalText(block), replace_call.find, replace_call.ignore_case) >= 1 }

\* C38: after find_replace with a replacement that is not None, for every
\* block of the page whose text held n >= 1 matches, the text last written
\* to the block is its original plain text with all n occurrences
\* replaced by the replacement, whatever n is.
C38_LastWriteReplacesAllMatches ==
    ( /\ replace_call.made
      /\ ~replace_call.replace.is_none )
    => \A block \in MatchingBlocks :
          LET written == WrittenTo(block)
          IN  /\ written # << >>
              /\ written[Len(written)].content
                   = WithAllReplaced(OriginalText(block), replace_call.find,
                                     replace_call.replace.text, replace_call.ignore_case)


====
